---- MODULE Spec2Model ----
(***************************************************************************)
(* Seat booking core of the ticketing system: BookingService.create_booking *)
(* and create_booking_with_seats (row locks, seat claim, booking + tickets, *)
(* commit / rollback), cancel_booking (crud and service), the dynamic       *)
(* pricing functions, the admin update of an event's base price, the cache  *)
(* invalidation port and the Celery task queue.                             *)
(*                                                                          *)
(* The database is PostgreSQL at READ COMMITTED: a row lock taken by        *)
(* SELECT ... FOR UPDATE or by UPDATE is held until commit or rollback, a   *)
(* statement that meets a locked row waits for it, and a cycle of waiting   *)
(* transactions is broken by the server aborting one of them.               *)
(*                                                                          *)
(* Money is held in integer cents, multipliers in hundredths, instants in   *)
(* half days.  The four pricing fields of a Booking are the ones            *)
(* create_booking_with_seats passes to the Booking constructor (and         *)
(* migrate_dynamic_pricing.py adds to the table).                           *)
(***************************************************************************)
EXTENDS Integers, Sequences, FiniteSets, TLC

(* ---------------------------- bounds ---------------------------------- *)
NumSessions == 2      \* request handlers that can be in flight at once
MaxRequests == 4      \* requests started in one behaviour
MaxSeatIds  == 2      \* length of a request's seat_identifiers list
MaxNow      == 1      \* last instant of the wall clock (half days)
MaxContenders   == 5  \* requests started in the contention specification
MaxRaceRequests == 6  \* requests started in the cancellation race
MaxInstant  == 64     \* last instant of the pricing quotations (half days)
MaxWaitRequests == 5  \* requests started in the waitlist specification
MaxEntries  == 5      \* waitlist entries of the event in the notifier specification

(* --------------------------- the database ------------------------------ *)
HalfDaysPerDay == 2
Sessions == 1..NumSessions
Users    == {"u1", "u2"}
Idents   == <<"A", "B", "Z">>               \* "Z" is a seat of no event
IdentSet == {Idents[i] : i \in 1..Len(Idents)}
NoRow    == <<"none", "none">>
NoEvent  == [base_price |-> -1, start_time |-> -1]   \* None for an event
BasePrices == {5000, 1010}
\* the events and seats that exist after seeding: one event that starts
\* seven days after instant 0, with seats A and B
SeedEvents == [e \in {"e1"} |-> [base_price |-> 5000, start_time |-> 14]]
SeedSeats  == {<<"e1", "A">>, <<"e1", "B">>}

VARIABLES
    seatStatus,    \* committed Seat.status of every seat row
    bookings,      \* committed bookings table, booking id = index
    events,        \* committed events table: base_price (cents), start_time
    now,           \* wall clock (half days)
    pc,            \* position of each request handler
    req,           \* the request a handler is serving / served last
    tx,            \* the handler's session: locals, row locks, lock target
    last,          \* the response of the call that completed last
    cacheDeleted,  \* deletions of each event's seat-map key by CacheService.delete
    outbox,        \* Celery tasks enqueued: <<task, argument, k>> for the k-th
                   \* enqueue of that task with that argument
    started,       \* requests started so far
    brokerUp,      \* whether the Celery broker accepts tasks
    redisUp,       \* whether the Redis cache answers
    waitlist,      \* committed waitlist_entries table, in order of joined_at
    worker,        \* the Celery worker: the task it runs and its last result
    seatCache,     \* Redis: the seat map stored under each event's seat-map key
    reader         \* the handler of GET /events/{id}/seats

vars == <<seatStatus, bookings, events, now, pc, req, tx, last,
          cacheDeleted, outbox, started, brokerUp, redisUp, waitlist, worker,
          seatCache, reader>>

(* ----------------------------- pricing --------------------------------- *)
PRICING_TIERS == <<<<28, 100>>, <<21, 125>>, <<14, 150>>, <<7, 175>>, <<0, 200>>>>

Max(a, b) == IF a >= b THEN a ELSE b

RECURSIVE TierFrom(_, _)
TierFrom(i, days_until_event) ==
    IF i > Len(PRICING_TIERS) THEN PRICING_TIERS[Len(PRICING_TIERS)][2]
    ELSE IF days_until_event >= PRICING_TIERS[i][1] THEN PRICING_TIERS[i][2]
    ELSE TierFrom(i + 1, days_until_event)

\* a variant whose tiers start one day late (> instead of >=)
calculate_pricing_multiplier_Strict(days_until_event) ==
    TierFrom(1, days_until_event - 1)

calculate_pricing_multiplier(days_until_event) == TierFrom(1, days_until_event)

\* (event_start_time - now).days : timedelta.days floors
DaysUntil(st, t) == (st - t) \div HalfDaysPerDay

\* round(x, 2) of a price held in 1/10000: round half to even
Round2(v) ==
    LET q == v \div 100
        r == v % 100
    IN  IF r > 50 THEN q + 1
        ELSE IF r < 50 THEN q
        ELSE IF q % 2 = 0 THEN q ELSE q + 1

calculate_current_price(base_price, st, t) ==
    LET days_until_event == DaysUntil(st, t)
    IN  IF days_until_event < 0 THEN base_price
        ELSE Round2(base_price * calculate_pricing_multiplier(days_until_event))

\* t2: the clock read inside calculate_current_price, t3: the second read
calculate_total_booking_cost(base_price, st, num_tickets, t2, t3) ==
    LET current_price == calculate_current_price(base_price, st, t2)
    IN  [total_cost |-> current_price * num_tickets,
         price_multiplier |->
             calculate_pricing_multiplier(Max(0, DaysUntil(st, t3)))]

\* sorted(timeline, key = days_before_event, reverse = True): a stable
\* insertion of each entry behind the entries whose key is not smaller
RECURSIVE InsertDesc(_, _)
InsertDesc(sorted, x) ==
    IF sorted = <<>> THEN <<x>>
    ELSE IF Head(sorted).days_before_event >= x.days_before_event
    THEN <<Head(sorted)>> \o InsertDesc(Tail(sorted), x)
    ELSE <<x>> \o sorted

RECURSIVE SortedDesc(_, _)
SortedDesc(timeline, n) ==
    IF n = 0 THEN <<>>
    ELSE InsertDesc(SortedDesc(timeline, n - 1), timeline[n])

\* one entry of the timeline: the tier's start instant, not before the
\* clock's instant t, and the price of the tier
TimelineEntry(base_price, st, t, tier) ==
    LET tier_start == st - tier[1] * HalfDaysPerDay
    IN  [start_date |-> IF tier_start <= t THEN t ELSE tier_start,
         days_before_event |-> tier[1],
         price_multiplier |-> tier[2],
         price |-> Round2(base_price * tier[2]),
         percentage_increase |-> tier[2] - 100]

\* a variant that leaves out the tiers that are over at instant t
get_pricing_timeline_Future(base_price, st, t) ==
    LET Current(x) == x.start_date > t \/ x.days_before_event = 0
        timeline == [i \in 1..Len(PRICING_TIERS) |->
                       TimelineEntry(base_price, st, t, PRICING_TIERS[i])]
        kept == SelectSeq(timeline, Current)
    IN  SortedDesc(kept, Len(kept))

\* get_pricing_timeline: one entry per tier, sorted by days_before_event,
\* largest first; t is the method's clock read
get_pricing_timeline(base_price, st, t) ==
    LET timeline == [i \in 1..Len(PRICING_TIERS) |->
                       TimelineEntry(base_price, st, t, PRICING_TIERS[i])]
    IN  SortedDesc(timeline, Len(timeline))

(* ----------------------------- helpers --------------------------------- *)
Range(s) == {s[i] : i \in 1..Len(s)}

IdentIndex(x) == CHOOSE i \in 1..Len(Idents) : Idents[i] = x

\* the seat_identifiers lists a request may carry: non-empty, in
\* non-decreasing order (the code uses only the length and the set)
SeatIdLists ==
    {l \in UNION {[1..n -> IdentSet] : n \in 1..MaxSeatIds} :
        \A i \in 1..(Len(l) - 1) : IdentIndex(l[i]) <= IdentIndex(l[i + 1])}

SeatRows == DOMAIN seatStatus
Events   == DOMAIN events
EventIds == Events \cup {"e0"}              \* "e0": no such event
BookingIds == 1..Len(bookings)

\* rows matched by WHERE event_id = e AND seat_identifier IN ids
MatchingRows(e, ids) == {r \in SeatRows : r[1] = e /\ r[2] \in Range(ids)}

EmptyReq == [op |-> "none", user |-> "none", event |-> "none", ids |-> <<>>,
             bid |-> 0]
EmptyTx  == [held |-> {}, want |-> {}, target |-> NoRow, unavailable |-> {},
             base |-> 0, final |-> 0, mult |-> 0, total |-> 0]
EmptyRes == [kind |-> "none", cause |-> "none", bid |-> 0, listed |-> {}]
Response(kind, cause, bid, listed) ==
    [kind |-> kind, cause |-> cause, bid |-> bid, listed |-> listed]

\* the Celery worker between tasks: no task running, no result yet, no
\* message consumed
NoResult == [kind |-> "none", event |-> "none", entries |-> <<>>,
             sent |-> 0, failed |-> 0]
IdleWorker == [pc |-> "idle", event |-> "none", entries |-> <<>>,
               attempts |-> <<>>, sent |-> 0, failed |-> 0,
               done |-> {}, result |-> NoResult]

\* a locking read that does not wait: the SELECT without with_for_update()
HeldByOther_NoLock(s, r) == FALSE

\* row r is locked by a transaction other than that of s
HeldByOther(s, r) == \E t \in Sessions \ {s} : r \in tx[t].held

\* CacheService.delete of the seat-map key of event e: the key is deleted,
\* or Redis does not answer and the call returns False
CacheService_delete(c, e) ==
    IF redisUp THEN [c EXCEPT ![e] = @ + 1] ELSE c

\* Redis with no key stored, and the seat-map handler between requests
NoKeys == [e \in {} |-> <<>>]
NoSeats == [r \in {} |-> "none"]
IdleReader == [pc |-> "idle", event |-> "none", seats |-> NoSeats,
               served |-> "none"]

\* redis_client.delete(key) of CacheService.delete: the key is gone, or
\* Redis does not answer and the stored keys stay
redis_delete(cache, key) ==
    IF redisUp THEN [k \in DOMAIN cache \ {key} |-> cache[k]] ELSE cache

\* CacheService.set: redis_client.setex(key, expire, value), or nothing when
\* Redis does not answer
CacheService_set(cache, key, value) ==
    IF redisUp
    THEN [k \in DOMAIN cache \cup {key} |-> IF k = key THEN value ELSE cache[k]]
    ELSE cache

\* CacheService.get: the stored value, or None when the key is absent or
\* Redis does not answer
CacheService_get(cache, key) ==
    IF redisUp /\ key \in DOMAIN cache THEN cache[key] ELSE NoSeats

\* number of tasks <<task, arg>> enqueued
Enqueued(task, arg) ==
    Cardinality({m \in outbox : m[1] = task /\ m[2] = arg})

\* task.delay(arg): the task is queued, or the enqueue raises (broker down)
\* and the caller swallows the exception
Delay(q, task, arg) ==
    IF brokerUp
    THEN q \cup {<<task, arg,
                   Cardinality({m \in q : m[1] = task /\ m[2] = arg}) + 1>>}
    ELSE q

\* acknowledged_price_per_ticket: absent, or the current price plus 0, 1 or
\* 2 cents
NoAck == -1
AckDeltas == {NoAck, 0, 1, 2}

\* t waits for a row lock that u holds
WaitsFor(t, u) ==
    /\ t # u
    /\ pc[t] \in {"locking", "cancelling"}
    /\ tx[t].target # NoRow
    /\ tx[t].target \in tx[u].held

RECURSIVE ReachFrom(_, _)
ReachFrom(S, n) ==
    IF n = 0 THEN S
    ELSE ReachFrom(S \cup {u \in Sessions : \E t \in S : WaitsFor(t, u)}, n - 1)

\* a server that never looks for cycles of lock waits
InCycle_Never(s) == FALSE

\* s is on a cycle of the waits-for graph
InCycle(s) ==
    s \in ReachFrom({u \in Sessions : WaitsFor(s, u)}, NumSessions)

\* the next row the locking statement visits: the statements carry no
\* ORDER BY, so any row not yet locked may come next
NextTargets(want, held) ==
    IF want \ held = {} THEN {NoRow} ELSE want \ held

\* get_available_seats_count
get_available_seats_count(e) ==
    Cardinality({r \in SeatRows : r[1] = e /\ seatStatus[r] = "AVAILABLE"})

Init ==
    /\ seatStatus = [r \in SeedSeats |-> "AVAILABLE"]
    /\ bookings = <<>>
    /\ events = SeedEvents
    /\ now = 0
    /\ pc = [s \in Sessions |-> "idle"]
    /\ req = [s \in Sessions |-> EmptyReq]
    /\ tx = [s \in Sessions |-> EmptyTx]
    /\ last = EmptyRes
    /\ cacheDeleted = [e \in DOMAIN SeedEvents |-> 0]
    /\ outbox = {}
    /\ started = 0
    /\ brokerUp = TRUE
    /\ redisUp = TRUE
    /\ waitlist = <<>>
    /\ worker = IdleWorker
    /\ seatCache = NoKeys
    /\ reader = IdleReader

\* the wall clock advances
Tick ==
    /\ now < MaxNow
    /\ now' = now + 1
    /\ UNCHANGED <<seatStatus, bookings, events, pc, req, tx, last,
                   cacheDeleted, outbox, started, brokerUp,
                   redisUp, waitlist, worker,
                   seatCache, reader>>

\* a variant that carries the new base price into the event's bookings
update_event_Reprice(e, p) ==
    /\ p # events[e].base_price
    /\ events' = [events EXCEPT ![e].base_price = p]
    /\ bookings' = [b \in BookingIds |->
                       IF bookings[b].event = e
                       THEN [bookings[b] EXCEPT !.base_price_per_ticket = p]
                       ELSE bookings[b]]
    /\ started' = started + 1
    /\ UNCHANGED <<seatStatus, now, pc, req, tx, last,
                   cacheDeleted, outbox, brokerUp,
                   redisUp, waitlist, worker,
                   seatCache, reader>>

\* admin PUT /events/{id} with base_price set: update_event
update_event(e, p) ==
    /\ p # events[e].base_price
    /\ events' = [events EXCEPT ![e].base_price = p]
    /\ started' = started + 1
    /\ UNCHANGED <<seatStatus, bookings, now, pc, req, tx, last,
                   cacheDeleted, outbox, brokerUp,
                   redisUp, waitlist, worker,
                   seatCache, reader>>

\* an exception leaves the handler: rollback (row locks released), raise
Raise(s, kind, cause, listed) ==
    /\ pc' = [pc EXCEPT ![s] = "idle"]
    /\ req' = [req EXCEPT ![s] = EmptyReq]
    /\ tx' = [tx EXCEPT ![s] = EmptyTx]
    /\ last' = Response(kind, cause, 0, listed)

\* a variant of the lookup that falls back to the first event
get_event_by_id_Fallback(e) ==
    IF e \in Events THEN events[e] ELSE events[CHOOSE x \in Events : TRUE]

\* get_event_by_id: the event row, or None
get_event_by_id(e) == IF e \in Events THEN events[e] ELSE NoEvent

\* a variant that never compares the acknowledged price
price_changed_Never(current_price, ack) == FALSE

\* the acknowledged-price check of BookingService.create_booking:
\* acknowledged_price_per_ticket is not None and price_diff > 0.01
price_changed(current_price, ack) ==
    LET price_diff == IF current_price >= ack THEN current_price - ack
                      ELSE ack - current_price
    IN  ack # NoAck /\ price_diff > 1

\* BookingService.create_booking up to the SELECT ... FOR UPDATE:
\* resolve the event, price it (three clock reads: now, t2, t3), check the
\* acknowledged price, then start locking the requested seat rows
create_booking(s, u, e, ids, ackd, t2, t3) ==
    /\ pc[s] = "idle"
    /\ started' = started + 1
    /\ UNCHANGED <<seatStatus, bookings, events, cacheDeleted, outbox, brokerUp,
                   redisUp, waitlist, worker,
                   seatCache, reader>>
    /\ IF get_event_by_id(e) = NoEvent
       THEN /\ t2 = now /\ t3 = now /\ ackd = NoAck
            /\ Raise(s, "EventNotFound", "none", {})
            /\ UNCHANGED now
       ELSE LET event == get_event_by_id(e)
                current_price ==
                    calculate_current_price(event.base_price,
                                            event.start_time, now)
                ack == IF ackd = NoAck THEN NoAck ELSE current_price + ackd
                pricing_details ==
                    calculate_total_booking_cost(event.base_price,
                                                 event.start_time,
                                                 Len(ids), t2, t3)
                want == MatchingRows(e, ids)
            IN  IF price_changed(current_price, ack)
                THEN /\ t2 = now /\ t3 = now
                     /\ Raise(s, "PriceChanged", "none",
                              {<<"current", current_price>>,
                               <<"acknowledged", ack>>})
                     /\ UNCHANGED now
                ELSE /\ now' = t3
                     /\ req' = [req EXCEPT ![s] =
                                  [op |-> "create", user |-> u, event |-> e,
                                   ids |-> ids, bid |-> 0]]
                     /\ pc' = [pc EXCEPT ![s] = "locking"]
                     /\ \E tg \in NextTargets(want, {}) :
                          tx' = [tx EXCEPT ![s] =
                                   [held |-> {}, want |-> want, target |-> tg,
                                    unavailable |-> {},
                                    base |-> event.base_price,
                                    final |-> current_price,
                                    mult |-> pricing_details.price_multiplier,
                                    total |-> pricing_details.total_cost]]
                     /\ UNCHANGED last

\* the locking statement of a transaction (SELECT ... FOR UPDATE of
\* create_booking_with_seats, the seat UPDATEs of cancel_booking's flush)
\* takes its next row lock; the SELECT reads the row's committed status
LockRow(s) ==
    /\ pc[s] \in {"locking", "cancelling"}
    /\ tx[s].target # NoRow
    /\ ~HeldByOther(s, tx[s].target)
    /\ \E tg \in NextTargets(tx[s].want, tx[s].held \cup {tx[s].target}) :
         tx' = [tx EXCEPT
                  ![s].held = @ \cup {tx[s].target},
                  ![s].target = tg,
                  ![s].unavailable =
                      IF pc[s] = "locking" /\ seatStatus[tx[s].target] # "AVAILABLE"
                      THEN @ \cup {tx[s].target} ELSE @]
    /\ UNCHANGED <<seatStatus, bookings, events, now, pc, req, last,
                   cacheDeleted, outbox, started, brokerUp,
                   redisUp, waitlist, worker,
                   seatCache, reader>>

\* a variant whose failure paths keep the seats already marked BOOKED
\* (the session is committed instead of rolled back)
create_booking_with_seats_NoRollback(s) ==
    /\ pc[s] = "locking"
    /\ tx[s].target = NoRow
    /\ LET locked_seats == tx[s].held
           found == {r[2] : r \in locked_seats}
           missing == Range(req[s].ids) \ found
           unavailable == tx[s].unavailable
           marked == [r \in SeatRows |->
                        IF r \in locked_seats THEN "BOOKED" ELSE seatStatus[r]]
       IN  IF Cardinality(locked_seats) # Len(req[s].ids)
           THEN /\ Raise(s, "SeatNotFound", "none", missing)
                /\ seatStatus' = marked
                /\ UNCHANGED bookings
           ELSE IF unavailable # {}
           THEN /\ Raise(s, "SeatUnavailable", "none", {r[2] : r \in unavailable})
                /\ seatStatus' = marked
                /\ UNCHANGED bookings
           ELSE /\ seatStatus' = marked
                /\ bookings' = Append(bookings,
                       [user |-> req[s].user, event |-> req[s].event,
                        status |-> "CONFIRMED", seats |-> locked_seats,
                        base_price_per_ticket |-> tx[s].base,
                        final_price_per_ticket |-> tx[s].final,
                        price_multiplier |-> tx[s].mult,
                        total_amount |-> tx[s].total])
                /\ pc' = [pc EXCEPT ![s] = "committed"]
                /\ tx' = [tx EXCEPT ![s] = EmptyTx]
                /\ req' = [req EXCEPT ![s].bid = Len(bookings) + 1]
                /\ UNCHANGED last
    /\ UNCHANGED <<events, now, cacheDeleted, outbox, started, brokerUp,
                   redisUp, waitlist, worker,
                   seatCache, reader>>

\* create_booking_with_seats after the rows are locked, then db.commit();
\* a ValueError takes the rollback of BookingService.create_booking
create_booking_with_seats(s) ==
    /\ pc[s] = "locking"
    /\ tx[s].target = NoRow
    /\ LET locked_seats == tx[s].held
           found == {r[2] : r \in locked_seats}
           missing == Range(req[s].ids) \ found
           unavailable == tx[s].unavailable
       IN  IF Cardinality(locked_seats) # Len(req[s].ids)
           THEN /\ Raise(s, "SeatNotFound", "none", missing)
                /\ UNCHANGED <<seatStatus, bookings>>
           ELSE IF unavailable # {}
           THEN /\ Raise(s, "SeatUnavailable", "none", {r[2] : r \in unavailable})
                /\ UNCHANGED <<seatStatus, bookings>>
           ELSE /\ seatStatus' = [r \in SeatRows |->
                                    IF r \in locked_seats THEN "BOOKED"
                                    ELSE seatStatus[r]]
                /\ bookings' = Append(bookings,
                       [user |-> req[s].user, event |-> req[s].event,
                        status |-> "CONFIRMED", seats |-> locked_seats,
                        base_price_per_ticket |-> tx[s].base,
                        final_price_per_ticket |-> tx[s].final,
                        price_multiplier |-> tx[s].mult,
                        total_amount |-> tx[s].total])
                /\ pc' = [pc EXCEPT ![s] = "committed"]
                /\ tx' = [tx EXCEPT ![s] = EmptyTx]
                /\ req' = [req EXCEPT ![s].bid = Len(bookings) + 1]
                /\ UNCHANGED last
    /\ UNCHANGED <<events, now, cacheDeleted, outbox, started, brokerUp,
                   redisUp, waitlist, worker,
                   seatCache, reader>>

\* a variant in which a refused enqueue escapes the handler: the call ends
\* with a server error
create_booking_after_commit_Surface(s) ==
    /\ pc[s] = "committed"
    /\ cacheDeleted' = CacheService_delete(cacheDeleted, req[s].event)
    /\ seatCache' = redis_delete(seatCache, req[s].event)
    /\ outbox' = Delay(outbox, "send_booking_confirmation_email", req[s].bid)
    /\ IF brokerUp
       THEN /\ pc' = [pc EXCEPT ![s] = "idle"]
            /\ req' = [req EXCEPT ![s] = EmptyReq]
            /\ last' = Response("Booking", "none", req[s].bid, {})
            /\ UNCHANGED tx
       ELSE Raise(s, "ServerError", "enqueue", {})
    /\ UNCHANGED <<seatStatus, bookings, events, now, started, brokerUp,
                   redisUp, waitlist, worker,
                   reader>>

\* BookingService.create_booking after the commit: cache invalidation and
\* the confirmation task, then the booking is returned
create_booking_after_commit(s) ==
    /\ pc[s] = "committed"
    /\ cacheDeleted' = CacheService_delete(cacheDeleted, req[s].event)
    /\ seatCache' = redis_delete(seatCache, req[s].event)
    /\ outbox' = Delay(outbox, "send_booking_confirmation_email", req[s].bid)
    /\ pc' = [pc EXCEPT ![s] = "idle"]
    /\ req' = [req EXCEPT ![s] = EmptyReq]
    /\ last' = Response("Booking", "none", req[s].bid, {})
    /\ UNCHANGED <<seatStatus, bookings, events, now, tx, started, brokerUp,
                   redisUp, waitlist, worker,
                   reader>>

\* a variant that invalidates the cache and enqueues the confirmation on
\* the failure path too
DbFault_Notify(s) ==
    /\ pc[s] \in {"locking", "cancelling"}
    /\ Raise(s, "ServerError", "fault", {})
    /\ cacheDeleted' = [cacheDeleted EXCEPT ![req[s].event] = @ + 1]
    /\ seatCache' = redis_delete(seatCache, req[s].event)
    /\ outbox' = Delay(outbox, "send_booking_confirmation_email",
                       Len(bookings) + 1)
    /\ UNCHANGED <<seatStatus, bookings, events, now, started, brokerUp,
                   redisUp, waitlist, worker,
                   reader>>

\* a statement, the flush or the commit of an open transaction fails
\* (connection loss): the handler rolls back and raises a server error
DbFault(s) ==
    /\ pc[s] \in {"locking", "cancelling"}
    /\ Raise(s, "ServerError", "fault", {})
    /\ UNCHANGED <<seatStatus, bookings, events, now,
                   cacheDeleted, outbox, started, brokerUp,
                   redisUp, waitlist, worker,
                   seatCache, reader>>

\* the server breaks a cycle of lock waits by aborting a waiting transaction
Deadlock(s) ==
    /\ InCycle(s)
    /\ Raise(s, "ServerError", "deadlock", {})
    /\ UNCHANGED <<seatStatus, bookings, events, now,
                   cacheDeleted, outbox, started, brokerUp,
                   redisUp, waitlist, worker,
                   seatCache, reader>>

\* a variant that refuses to release a seat that is not BOOKED
cancel_booking_Strict(s, u, bid) ==
    /\ pc[s] = "idle"
    /\ started' = started + 1
    /\ UNCHANGED <<seatStatus, bookings, events, now, cacheDeleted, outbox,
                   brokerUp,
                   redisUp, waitlist, worker,
                   seatCache, reader>>
    /\ IF ~(bid \in BookingIds /\ bookings[bid].user = u)
       THEN /\ pc' = [pc EXCEPT ![s] = "idle"]
            /\ req' = [req EXCEPT ![s] = EmptyReq]
            /\ tx' = [tx EXCEPT ![s] = EmptyTx]
            /\ last' = Response("Null", "none", 0, {})
       ELSE IF bookings[bid].status = "CANCELLED"
       THEN /\ pc' = [pc EXCEPT ![s] = "cancelled"]
            /\ req' = [req EXCEPT ![s] =
                         [op |-> "cancel", user |-> u,
                          event |-> bookings[bid].event, ids |-> <<>>,
                          bid |-> bid]]
            /\ UNCHANGED <<tx, last>>
       ELSE IF \E r \in bookings[bid].seats : seatStatus[r] # "BOOKED"
       THEN Raise(s, "ServerError", "release", {})
       ELSE LET want == bookings[bid].seats
            IN  /\ pc' = [pc EXCEPT ![s] = "cancelling"]
                /\ req' = [req EXCEPT ![s] =
                             [op |-> "cancel", user |-> u,
                              event |-> bookings[bid].event, ids |-> <<>>,
                              bid |-> bid]]
                /\ \E tg \in NextTargets(want, {}) :
                     tx' = [tx EXCEPT ![s] =
                              [EmptyTx EXCEPT !.want = want, !.target = tg]]
                /\ UNCHANGED last

\* a variant without the early return for a booking already CANCELLED
cancel_booking_NoEarlyReturn(s, u, bid) ==
    /\ pc[s] = "idle"
    /\ started' = started + 1
    /\ UNCHANGED <<seatStatus, bookings, events, now, cacheDeleted, outbox,
                   brokerUp,
                   redisUp, waitlist, worker,
                   seatCache, reader>>
    /\ IF ~(bid \in BookingIds /\ bookings[bid].user = u)
       THEN /\ pc' = [pc EXCEPT ![s] = "idle"]
            /\ req' = [req EXCEPT ![s] = EmptyReq]
            /\ tx' = [tx EXCEPT ![s] = EmptyTx]
            /\ last' = Response("Null", "none", 0, {})
       ELSE LET want == {r \in bookings[bid].seats : seatStatus[r] = "BOOKED"}
            IN  /\ pc' = [pc EXCEPT ![s] = "cancelling"]
                /\ req' = [req EXCEPT ![s] =
                             [op |-> "cancel", user |-> u,
                              event |-> bookings[bid].event, ids |-> <<>>,
                              bid |-> bid]]
                /\ \E tg \in NextTargets(want, {}) :
                     tx' = [tx EXCEPT ![s] =
                              [EmptyTx EXCEPT !.want = want, !.target = tg]]
                /\ UNCHANGED last

\* a variant whose SELECT is not scoped to the user
cancel_booking_AnyUser(s, u, bid) ==
    /\ pc[s] = "idle"
    /\ started' = started + 1
    /\ UNCHANGED <<seatStatus, bookings, events, now, cacheDeleted, outbox,
                   brokerUp,
                   redisUp, waitlist, worker,
                   seatCache, reader>>
    /\ IF bid \notin BookingIds
       THEN /\ pc' = [pc EXCEPT ![s] = "idle"]
            /\ req' = [req EXCEPT ![s] = EmptyReq]
            /\ tx' = [tx EXCEPT ![s] = EmptyTx]
            /\ last' = Response("Null", "none", 0, {})
       ELSE IF bookings[bid].status = "CANCELLED"
       THEN /\ pc' = [pc EXCEPT ![s] = "cancelled"]
            /\ req' = [req EXCEPT ![s] =
                         [op |-> "cancel", user |-> u,
                          event |-> bookings[bid].event, ids |-> <<>>,
                          bid |-> bid]]
            /\ UNCHANGED <<tx, last>>
       ELSE LET want == {r \in bookings[bid].seats : seatStatus[r] = "BOOKED"}
            IN  /\ pc' = [pc EXCEPT ![s] = "cancelling"]
                /\ req' = [req EXCEPT ![s] =
                             [op |-> "cancel", user |-> u,
                              event |-> bookings[bid].event, ids |-> <<>>,
                              bid |-> bid]]
                /\ \E tg \in NextTargets(want, {}) :
                     tx' = [tx EXCEPT ![s] =
                              [EmptyTx EXCEPT !.want = want, !.target = tg]]
                /\ UNCHANGED last

\* crud cancel_booking up to the flush: SELECT the booking scoped to the
\* user with its tickets and seats (no row is locked by this read)
cancel_booking(s, u, bid) ==
    /\ pc[s] = "idle"
    /\ started' = started + 1
    /\ UNCHANGED <<seatStatus, bookings, events, now, cacheDeleted, outbox,
                   brokerUp,
                   redisUp, waitlist, worker,
                   seatCache, reader>>
    /\ IF ~(bid \in BookingIds /\ bookings[bid].user = u)
       THEN \* BookingService.cancel_booking: `if booking:` is false
            /\ pc' = [pc EXCEPT ![s] = "idle"]
            /\ req' = [req EXCEPT ![s] = EmptyReq]
            /\ tx' = [tx EXCEPT ![s] = EmptyTx]
            /\ last' = Response("Null", "none", 0, {})
       ELSE IF bookings[bid].status = "CANCELLED"
       THEN \* idempotent return of the booking, no write
            /\ pc' = [pc EXCEPT ![s] = "cancelled"]
            /\ req' = [req EXCEPT ![s] =
                         [op |-> "cancel", user |-> u,
                          event |-> bookings[bid].event, ids |-> <<>>,
                          bid |-> bid]]
            /\ UNCHANGED <<tx, last>>
       ELSE LET want == {r \in bookings[bid].seats : seatStatus[r] = "BOOKED"}
            IN  /\ pc' = [pc EXCEPT ![s] = "cancelling"]
                /\ req' = [req EXCEPT ![s] =
                             [op |-> "cancel", user |-> u,
                              event |-> bookings[bid].event, ids |-> <<>>,
                              bid |-> bid]]
                /\ \E tg \in NextTargets(want, {}) :
                     tx' = [tx EXCEPT ![s] =
                              [EmptyTx EXCEPT !.want = want, !.target = tg]]
                /\ UNCHANGED last

\* generate_default_seat_layout: the first total_capacity identifiers
generate_default_seat_layout(total_capacity) ==
    {Idents[i] : i \in 1..total_capacity}

\* admin POST /events, EventService.create_event_with_seats: the event row
\* and one AVAILABLE seat per identifier of the default layout, in one
\* commit (create_new_event refuses total_capacity <= 0 and passes no
\* seat_layout)
create_event_with_seats(e, start_time, total_capacity) ==
    /\ e \notin Events
    /\ total_capacity > 0
    /\ events' = [x \in Events \cup {e} |->
                    IF x = e THEN [base_price |-> 5000, start_time |-> start_time]
                    ELSE events[x]]
    /\ seatStatus' =
         [r \in SeatRows \cup
                ({e} \X generate_default_seat_layout(total_capacity)) |->
            IF r \in SeatRows THEN seatStatus[r] ELSE "AVAILABLE"]
    /\ cacheDeleted' = [x \in Events \cup {e} |->
                          IF x \in DOMAIN cacheDeleted THEN cacheDeleted[x] ELSE 0]
    /\ started' = started + 1
    /\ UNCHANGED <<bookings, now, pc, req, tx, last, outbox, brokerUp,
                   redisUp, waitlist, worker,
                   seatCache, reader>>

\* a variant of the cancel that releases seats by seat_identifier alone,
\* in every event
cancel_booking_commit_AnyEvent(s) ==
    /\ pc[s] = "cancelling"
    /\ tx[s].target = NoRow
    /\ seatStatus' = [r \in SeatRows |->
                        IF r[2] \in {x[2] : x \in tx[s].want} THEN "AVAILABLE"
                        ELSE seatStatus[r]]
    /\ bookings' = [bookings EXCEPT ![req[s].bid].status = "CANCELLED"]
    /\ pc' = [pc EXCEPT ![s] = "cancelled"]
    /\ tx' = [tx EXCEPT ![s] = EmptyTx]
    /\ UNCHANGED <<events, now, req, last, cacheDeleted, outbox, started,
                   brokerUp, redisUp, waitlist, worker, seatCache, reader>>

\* a variant of the cancel that puts the released seats on hold
cancel_booking_commit_Hold(s) ==
    /\ pc[s] = "cancelling"
    /\ tx[s].target = NoRow
    /\ seatStatus' = [r \in SeatRows |->
                        IF r \in tx[s].want THEN "LOCKED" ELSE seatStatus[r]]
    /\ bookings' = [bookings EXCEPT ![req[s].bid].status = "CANCELLED"]
    /\ pc' = [pc EXCEPT ![s] = "cancelled"]
    /\ tx' = [tx EXCEPT ![s] = EmptyTx]
    /\ UNCHANGED <<events, now, req, last, cacheDeleted, outbox, started,
                   brokerUp,
                   redisUp, waitlist, worker,
                   seatCache, reader>>

\* a variant of the cancel that deletes the tickets of the booking
cancel_booking_commit_Purge(s) ==
    /\ pc[s] = "cancelling"
    /\ tx[s].target = NoRow
    /\ seatStatus' = [r \in SeatRows |->
                        IF r \in tx[s].want THEN "AVAILABLE" ELSE seatStatus[r]]
    /\ bookings' = [bookings EXCEPT ![req[s].bid].status = "CANCELLED",
                                    ![req[s].bid].seats = {}]
    /\ pc' = [pc EXCEPT ![s] = "cancelled"]
    /\ tx' = [tx EXCEPT ![s] = EmptyTx]
    /\ UNCHANGED <<events, now, req, last, cacheDeleted, outbox, started,
                   brokerUp,
                   redisUp, waitlist, worker,
                   seatCache, reader>>

\* crud cancel_booking: the flush has its row locks; UPDATE the seats that
\* were read as BOOKED, UPDATE the booking, commit
cancel_booking_commit(s) ==
    /\ pc[s] = "cancelling"
    /\ tx[s].target = NoRow
    /\ seatStatus' = [r \in SeatRows |->
                        IF r \in tx[s].want THEN "AVAILABLE" ELSE seatStatus[r]]
    /\ bookings' = [bookings EXCEPT ![req[s].bid].status = "CANCELLED"]
    /\ pc' = [pc EXCEPT ![s] = "cancelled"]
    /\ tx' = [tx EXCEPT ![s] = EmptyTx]
    /\ UNCHANGED <<events, now, req, last, cacheDeleted, outbox, started,
                   brokerUp,
                   redisUp, waitlist, worker,
                   seatCache, reader>>

\* the Celery broker or the Redis cache goes down or comes back
Outage(b, r) ==
    /\ <<b, r>> # <<brokerUp, redisUp>>
    /\ brokerUp' = b
    /\ redisUp' = r
    /\ UNCHANGED <<seatStatus, bookings, events, now, pc, req, tx, last,
                   cacheDeleted, outbox, started, waitlist, worker,
                   seatCache, reader>>

\* BookingService.cancel_booking once the crud call returned a booking:
\* cache invalidation, cancellation task, and the waitlist task when the
\* event has an AVAILABLE seat
cancel_booking_after_commit(s) ==
    /\ pc[s] = "cancelled"
    /\ cacheDeleted' = CacheService_delete(cacheDeleted, req[s].event)
    /\ seatCache' = redis_delete(seatCache, req[s].event)
    /\ LET q1 == Delay(outbox, "send_booking_cancellation_email", req[s].bid)
           available == get_available_seats_count(req[s].event)
       IN  outbox' = IF available > 0
                     THEN Delay(q1, "notify_all_waitlist_users", req[s].event)
                     ELSE q1
    /\ pc' = [pc EXCEPT ![s] = "idle"]
    /\ req' = [req EXCEPT ![s] = EmptyReq]
    /\ last' = Response("Cancelled", "none", req[s].bid, {})
    /\ UNCHANGED <<seatStatus, bookings, events, now, tx, started, brokerUp,
                   redisUp, waitlist, worker,
                   reader>>

\* GET /bookings/pricing/event/{id}: get_event_pricing_timeline prices the
\* event at the first clock read, builds the timeline at a later read and
\* reports the days left at the last read, t3 (a read-only request: it is
\* not counted in started)
get_event_pricing_timeline(e, t3) ==
    /\ IF e \notin Events
       THEN /\ t3 = now
            /\ last' = Response("EventNotFound", "none", 0, {})
            /\ UNCHANGED now
       ELSE LET days_until_event == DaysUntil(events[e].start_time, t3)
            IN  /\ now' = t3
                /\ \E t2 \in now..t3 :
                     last' =
                       [kind |-> "Pricing", cause |-> "none", bid |-> 0,
                        listed |-> {}, event |-> e,
                        base_price |-> events[e].base_price,
                        current_price |->
                            calculate_current_price(events[e].base_price,
                                                    events[e].start_time, now),
                        days_until_event |-> Max(0, days_until_event),
                        current_multiplier |->
                            calculate_pricing_multiplier(Max(0, days_until_event)),
                        pricing_timeline |->
                            get_pricing_timeline(events[e].base_price,
                                                 events[e].start_time, t2)]
    /\ UNCHANGED <<seatStatus, bookings, events, pc, req, tx,
                   cacheDeleted, outbox, started, brokerUp,
                   redisUp, waitlist, worker,
                   seatCache, reader>>

(* ----------------------------- seat map -------------------------------- *)
\* GET /events/{id}/seats, get_event_seat_map up to the SELECT of the
\* seats: 404 for no event; a cached seat map that is not empty is the
\* answer; otherwise the committed seats of the event are read
get_event_seat_map(e) ==
    /\ reader.pc = "idle"
    /\ LET cached_seats == CacheService_get(seatCache, e)
       IN  reader' =
             IF e \notin Events
             THEN [IdleReader EXCEPT !.served = "EventNotFound"]
             ELSE IF cached_seats # NoSeats
             THEN [IdleReader EXCEPT !.served = "cache",
                                     !.seats = cached_seats]
             ELSE [pc |-> "read", event |-> e,
                   seats |-> [r \in {x \in SeatRows : x[1] = e} |->
                                seatStatus[r]],
                   served |-> "none"]
    /\ UNCHANGED <<seatStatus, bookings, events, now, pc, req, tx, last,
                   cacheDeleted, outbox, started, brokerUp, redisUp,
                   waitlist, worker, seatCache>>

\* get_event_seat_map after the SELECT returned: the seats read are stored
\* under the event's key for 5 minutes and returned
get_event_seat_map_set ==
    /\ reader.pc = "read"
    /\ seatCache' = CacheService_set(seatCache, reader.event, reader.seats)
    /\ reader' = [IdleReader EXCEPT !.served = "database",
                                    !.seats = reader.seats]
    /\ UNCHANGED <<seatStatus, bookings, events, now, pc, req, tx, last,
                   cacheDeleted, outbox, started, brokerUp, redisUp,
                   waitlist, worker>>

\* the key of an event's seat map reaches its expiry (setex, 300 s)
Expire(e) ==
    /\ e \in DOMAIN seatCache
    /\ seatCache' = [k \in DOMAIN seatCache \ {e} |-> seatCache[k]]
    /\ UNCHANGED <<seatStatus, bookings, events, now, pc, req, tx, last,
                   cacheDeleted, outbox, started, brokerUp, redisUp,
                   waitlist, worker, reader>>

(* ----------------------------- waitlist -------------------------------- *)
\* a variant that reads the earliest entry only (.first())
WaitlistOf_Head(e) ==
    LET OfEvent(w) == w.event = e
        rows == SelectSeq(waitlist, OfEvent)
    IN  [i \in 1..(IF rows = <<>> THEN 0 ELSE 1) |-> rows[i].user]

\* the users on the waitlist of event e, ordered by joined_at
WaitlistOf(e) ==
    LET OfEvent(w) == w.event = e
        rows == SelectSeq(waitlist, OfEvent)
    IN  [i \in 1..Len(rows) |-> rows[i].user]

\* a row of waitlist_entries for the pair exists
OnWaitlist(u, e) ==
    \E i \in 1..Len(waitlist) : waitlist[i] = [user |-> u, event |-> e]

\* a table without the constraint uq_user_event_waitlist
UniqueViolation_None(u, e) == FALSE

\* the INSERT meets the constraint uq_user_event_waitlist
UniqueViolation(u, e) == OnWaitlist(u, e)

\* POST /waitlist/join, join_waitlist up to db.add: the SELECT of the pair;
\* an existing row raises ValueError (400), otherwise the INSERT is pending
join_waitlist(s, u, e) ==
    /\ pc[s] = "idle"
    /\ started' = started + 1
    /\ IF OnWaitlist(u, e)
       THEN Raise(s, "AlreadyOnWaitlist", "none", {})
       ELSE /\ pc' = [pc EXCEPT ![s] = "joining"]
            /\ req' = [req EXCEPT ![s] =
                         [op |-> "join", user |-> u, event |-> e,
                          ids |-> <<>>, bid |-> 0]]
            /\ UNCHANGED <<tx, last>>
    /\ UNCHANGED <<seatStatus, bookings, events, now, cacheDeleted, outbox,
                   brokerUp, redisUp, waitlist, worker,
                   seatCache, reader>>

\* join_waitlist, db.commit(): the INSERT is flushed and committed; a
\* violation of the unique constraint or of the foreign key to events
\* raises IntegrityError, which join_event_waitlist answers with 500
join_waitlist_commit(s) ==
    /\ pc[s] = "joining"
    /\ IF UniqueViolation(req[s].user, req[s].event) \/ req[s].event \notin Events
       THEN /\ Raise(s, "ServerError", "integrity", {})
            /\ UNCHANGED waitlist
       ELSE /\ waitlist' = Append(waitlist, [user |-> req[s].user,
                                             event |-> req[s].event])
            /\ pc' = [pc EXCEPT ![s] = "idle"]
            /\ req' = [req EXCEPT ![s] = EmptyReq]
            /\ last' = Response("WaitlistEntry", "none", 0,
                                {<<req[s].user, req[s].event>>})
            /\ UNCHANGED tx
    /\ UNCHANGED <<seatStatus, bookings, events, now, cacheDeleted, outbox,
                   started, brokerUp, redisUp, worker,
                   seatCache, reader>>

\* remove_from_waitlist: DELETE the row of the pair, commit, and return
\* whether a row was deleted
remove_from_waitlist(s, u, e) ==
    /\ pc[s] = "idle"
    /\ started' = started + 1
    /\ LET NotPair(w) == w # [user |-> u, event |-> e]
       IN  waitlist' = SelectSeq(waitlist, NotPair)
    /\ last' = Response(IF OnWaitlist(u, e) THEN "Removed" ELSE "NotRemoved",
                        "none", 0, {<<u, e>>})
    /\ UNCHANGED <<seatStatus, bookings, events, now, pc, req, tx,
                   cacheDeleted, outbox, brokerUp, redisUp, worker,
                   seatCache, reader>>

\* the task notify_all_waitlist_users starts on a queued message: it reads
\* the event's waitlist entries ordered by joined_at, then the event
notify_all_waitlist_users(m) ==
    /\ worker.pc = "idle"
    /\ m \in outbox \ worker.done
    /\ m[1] = "notify_all_waitlist_users"
    /\ LET waitlist_entries == WaitlistOf(m[2])
       IN  worker' =
             IF waitlist_entries = <<>>
             THEN [worker EXCEPT !.done = @ \cup {m},
                                 !.result = [NoResult EXCEPT
                                               !.kind = "NoEntries",
                                               !.event = m[2]]]
             ELSE IF m[2] \notin Events
             THEN [worker EXCEPT !.done = @ \cup {m},
                                 !.result = [NoResult EXCEPT
                                               !.kind = "EventNotFound",
                                               !.event = m[2]]]
             ELSE [worker EXCEPT !.done = @ \cup {m},
                                 !.pc = "running",
                                 !.event = m[2],
                                 !.entries = waitlist_entries,
                                 !.attempts = <<>>,
                                 !.sent = 0,
                                 !.failed = 0]
    /\ UNCHANGED <<seatStatus, bookings, events, now, pc, req, tx, last,
                   cacheDeleted, outbox, started, brokerUp, redisUp, waitlist,
                   seatCache, reader>>

\* the outcomes of one send_waitlist_notification: delivered (True),
\* refused (False), or an exception
Deliveries == {"sent", "refused", "raised"}

\* a variant of the loop body that lets an exception end the task
send_waitlist_notification_Abort(outcome) ==
    /\ worker.pc = "running"
    /\ Len(worker.attempts) < Len(worker.entries)
    /\ LET user == worker.entries[Len(worker.attempts) + 1]
       IN  worker' =
             IF outcome = "raised"
             THEN [worker EXCEPT
                     !.pc = "idle", !.event = "none", !.entries = <<>>,
                     !.attempts = <<>>, !.sent = 0, !.failed = 0,
                     !.result = [kind |-> "Raised", event |-> worker.event,
                                 entries |-> worker.entries,
                                 sent |-> worker.sent,
                                 failed |-> worker.failed]]
             ELSE [worker EXCEPT
                     !.attempts = Append(@, <<user, outcome>>),
                     !.sent = IF outcome = "sent" THEN @ + 1 ELSE @,
                     !.failed = IF outcome = "sent" THEN @ ELSE @ + 1]
    /\ UNCHANGED <<seatStatus, bookings, events, now, pc, req, tx, last,
                   cacheDeleted, outbox, started, brokerUp, redisUp, waitlist,
                   seatCache, reader>>

\* one pass of the loop of notify_all_waitlist_users: the next entry's user
\* is sent the notification inside its own try/except
send_waitlist_notification(outcome) ==
    /\ worker.pc = "running"
    /\ Len(worker.attempts) < Len(worker.entries)
    /\ LET user == worker.entries[Len(worker.attempts) + 1]
       IN  worker' = [worker EXCEPT
                        !.attempts = Append(@, <<user, outcome>>),
                        !.sent = IF outcome = "sent" THEN @ + 1 ELSE @,
                        !.failed = IF outcome = "sent" THEN @ ELSE @ + 1]
    /\ UNCHANGED <<seatStatus, bookings, events, now, pc, req, tx, last,
                   cacheDeleted, outbox, started, brokerUp, redisUp, waitlist,
                   seatCache, reader>>

\* a variant of the task that deletes the entries it has notified
notify_all_return_Dequeue ==
    /\ worker.pc = "running"
    /\ Len(worker.attempts) = Len(worker.entries)
    /\ worker' = [worker EXCEPT
                    !.pc = "idle", !.event = "none", !.entries = <<>>,
                    !.attempts = <<>>, !.sent = 0, !.failed = 0,
                    !.result = [kind |-> "Summary", event |-> worker.event,
                                entries |-> worker.entries,
                                sent |-> worker.sent,
                                failed |-> worker.failed]]
    /\ LET Kept(w) == w.event # worker.event
       IN  waitlist' = SelectSeq(waitlist, Kept)
    /\ UNCHANGED <<seatStatus, bookings, events, now, pc, req, tx, last,
                   cacheDeleted, outbox, started, brokerUp, redisUp,
                   seatCache, reader>>

\* the loop of notify_all_waitlist_users is over: the task returns its
\* summary of successful and failed notifications
notify_all_return ==
    /\ worker.pc = "running"
    /\ Len(worker.attempts) = Len(worker.entries)
    /\ worker' = [worker EXCEPT
                    !.pc = "idle", !.event = "none", !.entries = <<>>,
                    !.attempts = <<>>, !.sent = 0, !.failed = 0,
                    !.result = [kind |-> "Summary", event |-> worker.event,
                                entries |-> worker.entries,
                                sent |-> worker.sent,
                                failed |-> worker.failed]]
    /\ UNCHANGED <<seatStatus, bookings, events, now, pc, req, tx, last,
                   cacheDeleted, outbox, started, brokerUp, redisUp, waitlist,
                   seatCache, reader>>

(* ------------------------- specifications ------------------------------ *)
\* the concurrency specification: bookings carry no acknowledged price and
\* the clock stands still
Next ==
    \/ \E s \in Sessions, u \in Users, e \in EventIds, ids \in SeatIdLists :
         /\ started < MaxRequests
         /\ create_booking(s, u, e, ids, NoAck, now, now)
    \/ \E s \in Sessions : LockRow(s)
    \/ \E s \in Sessions : create_booking_with_seats(s)
    \/ \E s \in Sessions : create_booking_after_commit(s)
    \/ \E s \in Sessions, u \in Users, bid \in 1..(Len(bookings) + 1) :
         /\ started < MaxRequests
         /\ cancel_booking(s, u, bid)
    \/ \E s \in Sessions : cancel_booking_commit(s)
    \/ \E s \in Sessions : cancel_booking_after_commit(s)
    \/ \E s \in Sessions : DbFault(s)
    \/ \E s \in Sessions : Deadlock(s)

Spec == Init /\ [][Next]_vars

\* the pricing specification: one handler at a time books seat A or seats
\* A and B while the clock advances and the admin changes the base price
NextPricing ==
    \/ Tick
    \/ \E e \in Events, p \in BasePrices :
         /\ started < MaxRequests
         /\ update_event(e, p)
    \/ \E u \in Users, e \in Events, ids \in {<<"A">>, <<"A", "B">>},
          ackd \in AckDeltas, t2 \in now..MaxNow, t3 \in now..MaxNow :
         /\ started < MaxRequests
         /\ t2 <= t3
         /\ create_booking(1, u, e, ids, ackd, t2, t3)
    \/ LockRow(1)
    \/ create_booking_with_seats(1)
    \/ create_booking_after_commit(1)
    \/ \E u \in Users, bid \in 1..(Len(bookings) + 1) :
         /\ started < MaxRequests
         /\ cancel_booking(1, u, bid)
    \/ cancel_booking_commit(1)
    \/ cancel_booking_after_commit(1)

SpecPricing == Init /\ [][NextPricing]_vars

\* the contention specification (test_concurrency.py, MODE = "contend"):
\* every request books the single seat A of event e1, and no statement fails
NextContend ==
    \/ \E s \in Sessions, u \in Users :
         /\ started < MaxContenders
         /\ create_booking(s, u, "e1", <<"A">>, NoAck, now, now)
    \/ \E s \in Sessions : LockRow(s)
    \/ \E s \in Sessions : create_booking_with_seats(s)
    \/ \E s \in Sessions : create_booking_after_commit(s)

SpecContend == Init /\ [][NextContend]_vars

\* the overlap specification: concurrent bookings of seats that exist, for
\* seat sets that may overlap; no statement fails
NextOverlap ==
    \/ \E s \in Sessions, u \in Users,
          ids \in {l \in SeatIdLists : "Z" \notin Range(l) /\
                                      Cardinality(Range(l)) = Len(l)} :
         /\ started < MaxRequests
         /\ create_booking(s, u, "e1", ids, NoAck, now, now)
    \/ \E s \in Sessions : LockRow(s)
    \/ \E s \in Sessions : create_booking_with_seats(s)
    \/ \E s \in Sessions : create_booking_after_commit(s)
    \/ \E s \in Sessions : Deadlock(s)

SpecOverlap == Init /\ [][NextOverlap]_vars

\* the cancellation race specification: one user books seat A and cancels
\* bookings, from concurrent handlers
NextRace ==
    \/ \E s \in Sessions :
         /\ started < MaxRaceRequests
         /\ create_booking(s, "u1", "e1", <<"A">>, NoAck, now, now)
    \/ \E s \in Sessions : LockRow(s)
    \/ \E s \in Sessions : create_booking_with_seats(s)
    \/ \E s \in Sessions : create_booking_after_commit(s)
    \/ \E s \in Sessions, bid \in BookingIds :
         /\ started < MaxRaceRequests
         /\ cancel_booking(s, "u1", bid)
    \/ \E s \in Sessions : cancel_booking_commit(s)
    \/ \E s \in Sessions : cancel_booking_after_commit(s)

SpecRace == Init /\ [][NextRace]_vars

\* the quotation specification: an event with any of the base prices and
\* any start instant is priced at any instant, before or after its start
Instants == 0..MaxInstant

InitQuote ==
    /\ seatStatus = [r \in SeedSeats |-> "AVAILABLE"]
    /\ bookings = <<>>
    /\ events \in [{"e1"} -> [base_price : BasePrices, start_time : Instants]]
    /\ now \in Instants
    /\ pc = [s \in Sessions |-> "idle"]
    /\ req = [s \in Sessions |-> EmptyReq]
    /\ tx = [s \in Sessions |-> EmptyTx]
    /\ last = EmptyRes
    /\ cacheDeleted = [e \in DOMAIN SeedEvents |-> 0]
    /\ outbox = {}
    /\ started = 0
    /\ brokerUp = TRUE
    /\ redisUp = TRUE
    /\ waitlist = <<>>
    /\ worker = IdleWorker
    /\ seatCache = NoKeys
    /\ reader = IdleReader

NextQuote ==
    \E e \in EventIds : get_event_pricing_timeline(e, now)

SpecQuote == InitQuote /\ [][NextQuote]_vars

\* the empty-list specification: the request body's seat_identifiers is a
\* List[str] with no length constraint, so a booking request may carry the
\* empty list; requests book nothing or seat A, and bookings are cancelled
NextEmpty ==
    \/ \E s \in Sessions, u \in Users, ids \in {<<>>, <<"A">>} :
         /\ started < MaxRequests
         /\ create_booking(s, u, "e1", ids, NoAck, now, now)
    \/ \E s \in Sessions : LockRow(s)
    \/ \E s \in Sessions : create_booking_with_seats(s)
    \/ \E s \in Sessions : create_booking_after_commit(s)
    \/ \E s \in Sessions, u \in Users, bid \in BookingIds :
         /\ started < MaxRequests
         /\ cancel_booking(s, u, bid)
    \/ \E s \in Sessions : cancel_booking_commit(s)
    \/ \E s \in Sessions : cancel_booking_after_commit(s)

SpecEmpty == Init /\ [][NextEmpty]_vars

\* the missing-seat specification: concurrent bookings of event e1 whose
\* lists name seats A and B and the identifier Z, which is no seat of the
\* event; no statement fails
NextMissing ==
    \/ \E s \in Sessions, u \in Users,
          ids \in {<<"Z">>, <<"A", "Z">>, <<"A", "B">>, <<"A", "B", "Z">>} :
         /\ started < MaxRequests
         /\ create_booking(s, u, "e1", ids, NoAck, now, now)
    \/ \E s \in Sessions : LockRow(s)
    \/ \E s \in Sessions : create_booking_with_seats(s)
    \/ \E s \in Sessions : create_booking_after_commit(s)
    \/ \E s \in Sessions : Deadlock(s)

SpecMissing == Init /\ [][NextMissing]_vars

\* the repeated-identifier specification: the request body's list may name
\* an identifier more than once; requests book seat A, seat B, or name seat
\* A twice; no statement fails
NextDuplicate ==
    \/ \E s \in Sessions, u \in Users,
          ids \in {<<"A">>, <<"B">>, <<"A", "A">>} :
         /\ started < MaxRequests
         /\ create_booking(s, u, "e1", ids, NoAck, now, now)
    \/ \E s \in Sessions : LockRow(s)
    \/ \E s \in Sessions : create_booking_with_seats(s)
    \/ \E s \in Sessions : create_booking_after_commit(s)

SpecDuplicate == Init /\ [][NextDuplicate]_vars

\* the outage specification: seat A is booked and bookings are cancelled by
\* concurrent handlers while the broker and the cache fail and recover
NextOutage ==
    \/ \E b \in BOOLEAN, r \in BOOLEAN : Outage(b, r)
    \/ \E s \in Sessions :
         /\ started < MaxRequests
         /\ create_booking(s, "u1", "e1", <<"A">>, NoAck, now, now)
    \/ \E s \in Sessions : LockRow(s)
    \/ \E s \in Sessions : create_booking_with_seats(s)
    \/ \E s \in Sessions : create_booking_after_commit(s)
    \/ \E s \in Sessions, bid \in BookingIds :
         /\ started < MaxRequests
         /\ cancel_booking(s, "u1", bid)
    \/ \E s \in Sessions : cancel_booking_commit(s)
    \/ \E s \in Sessions : cancel_booking_after_commit(s)

SpecOutage == Init /\ [][NextOutage]_vars

\* the waitlist specification: users join and leave the waitlist of event
\* e1 while u1 books both of its seats and cancels bookings, from concurrent
\* handlers; the worker runs the queued waitlist tasks and any delivery may
\* fail
NextWaitlist ==
    \/ \E s \in Sessions, u \in Users :
         /\ started < MaxWaitRequests
         /\ join_waitlist(s, u, "e1")
    \/ \E s \in Sessions : join_waitlist_commit(s)
    \/ \E s \in Sessions, u \in Users :
         /\ started < MaxWaitRequests
         /\ remove_from_waitlist(s, u, "e1")
    \/ \E s \in Sessions :
         /\ started < MaxWaitRequests
         /\ create_booking(s, "u1", "e1", <<"A", "B">>, NoAck, now, now)
    \/ \E s \in Sessions : LockRow(s)
    \/ \E s \in Sessions : create_booking_with_seats(s)
    \/ \E s \in Sessions : create_booking_after_commit(s)
    \/ \E s \in Sessions : Deadlock(s)
    \/ \E s \in Sessions, bid \in BookingIds :
         /\ started < MaxWaitRequests
         /\ cancel_booking(s, "u1", bid)
    \/ \E s \in Sessions : cancel_booking_commit(s)
    \/ \E s \in Sessions : cancel_booking_after_commit(s)
    \/ \E m \in outbox : notify_all_waitlist_users(m)
    \/ \E outcome \in Deliveries : send_waitlist_notification(outcome)
    \/ notify_all_return

SpecWaitlist == Init /\ [][NextWaitlist]_vars

\* the notifier specification: the event is sold out to one booking of u1
\* and has up to MaxEntries users on its waitlist, in the order they joined;
\* the booking is cancelled (also repeatedly) and the worker runs the queued
\* waitlist tasks, with any delivery failing or raising; one request is
\* served at a time
Subscriber(i) == "u" \o ToString(i)

InitNotify ==
    /\ seatStatus = [r \in SeedSeats |-> "BOOKED"]
    /\ bookings = <<[user |-> "u1", event |-> "e1", status |-> "CONFIRMED",
                     seats |-> SeedSeats,
                     base_price_per_ticket |-> 5000,
                     final_price_per_ticket |-> 8750,
                     price_multiplier |-> 175,
                     total_amount |-> 17500]>>
    /\ events = SeedEvents
    /\ now = 0
    /\ pc = [s \in Sessions |-> "idle"]
    /\ req = [s \in Sessions |-> EmptyReq]
    /\ tx = [s \in Sessions |-> EmptyTx]
    /\ last = Response("Booking", "none", 1, {})
    /\ cacheDeleted = [e \in DOMAIN SeedEvents |-> 1]
    /\ outbox = {<<"send_booking_confirmation_email", 1, 1>>}
    /\ started = 1
    /\ brokerUp = TRUE
    /\ redisUp = TRUE
    /\ \E n \in 0..MaxEntries :
         waitlist = [i \in 1..n |-> [user |-> Subscriber(i), event |-> "e1"]]
    /\ worker = IdleWorker
    /\ seatCache = NoKeys
    /\ reader = IdleReader

NextNotify ==
    \/ \E bid \in BookingIds :
         /\ started < MaxRequests
         /\ cancel_booking(1, "u1", bid)
    \/ LockRow(1)
    \/ cancel_booking_commit(1)
    \/ cancel_booking_after_commit(1)
    \/ \E m \in outbox : notify_all_waitlist_users(m)
    \/ \E outcome \in Deliveries : send_waitlist_notification(outcome)
    \/ notify_all_return

SpecNotify == InitNotify /\ [][NextNotify]_vars

\* the ledger specification: the admin creates event e2 with one or two
\* seats while u1 and u2 book seat A or seats A and B of the events that
\* exist and cancel bookings, from concurrent handlers; statements may fail
NextLedger ==
    \/ \E st \in {0, 14}, total_capacity \in 1..MaxSeatIds :
         /\ started < MaxRequests
         /\ create_event_with_seats("e2", st, total_capacity)
    \/ \E s \in Sessions, u \in Users, e \in Events,
          ids \in {<<"A">>, <<"A", "B">>} :
         /\ started < MaxRequests
         /\ create_booking(s, u, e, ids, NoAck, now, now)
    \/ \E s \in Sessions : LockRow(s)
    \/ \E s \in Sessions : create_booking_with_seats(s)
    \/ \E s \in Sessions : create_booking_after_commit(s)
    \/ \E s \in Sessions, u \in Users, bid \in BookingIds :
         /\ started < MaxRequests
         /\ cancel_booking(s, u, bid)
    \/ \E s \in Sessions : cancel_booking_commit(s)
    \/ \E s \in Sessions : cancel_booking_after_commit(s)
    \/ \E s \in Sessions : DbFault(s)
    \/ \E s \in Sessions : Deadlock(s)

SpecLedger == Init /\ [][NextLedger]_vars

\* the fair specification: the requests of Next, where every handler whose
\* next statement can run does run it (the event loop and the database
\* serve every open request) and the server's deadlock detector aborts a
\* transaction of every cycle of lock waits; new requests and failures of
\* statements may or may not happen
Fairness ==
    \A s \in Sessions :
        /\ WF_vars(LockRow(s))
        /\ WF_vars(create_booking_with_seats(s))
        /\ WF_vars(create_booking_after_commit(s))
        /\ WF_vars(cancel_booking_commit(s))
        /\ WF_vars(cancel_booking_after_commit(s))
        /\ WF_vars(Deadlock(s))

SpecFair == Init /\ [][Next]_vars /\ Fairness

\* the started-event specification: the admin creates event e2, which
\* starts at instant 0 or seven days later, while the clock advances (also
\* between the clock reads of one attempt) and one handler at a time books
\* seat A or seats A and B of the events that exist
NextStarted ==
    \/ Tick
    \/ \E st \in {0, 14}, total_capacity \in 1..MaxSeatIds :
         /\ started < MaxRequests
         /\ create_event_with_seats("e2", st, total_capacity)
    \/ \E u \in Users, e \in Events, ids \in {<<"A">>, <<"A", "B">>},
          t2 \in now..MaxNow, t3 \in now..MaxNow :
         /\ started < MaxRequests
         /\ t2 <= t3
         /\ create_booking(1, u, e, ids, NoAck, t2, t3)
    \/ LockRow(1)
    \/ create_booking_with_seats(1)
    \/ create_booking_after_commit(1)

SpecStarted == Init /\ [][NextStarted]_vars

\* the seat-map specification: u1 books seat A and cancels bookings from
\* concurrent handlers while the seat map of the event is requested, its
\* cached copy filled from the database and expiring
NextSeatMap ==
    \/ \E s \in Sessions :
         /\ started < MaxRequests
         /\ create_booking(s, "u1", "e1", <<"A">>, NoAck, now, now)
    \/ \E s \in Sessions : LockRow(s)
    \/ \E s \in Sessions : create_booking_with_seats(s)
    \/ \E s \in Sessions : create_booking_after_commit(s)
    \/ \E s \in Sessions, bid \in BookingIds :
         /\ started < MaxRequests
         /\ cancel_booking(s, "u1", bid)
    \/ \E s \in Sessions : cancel_booking_commit(s)
    \/ \E s \in Sessions : cancel_booking_after_commit(s)
    \/ get_event_seat_map("e1")
    \/ get_event_seat_map_set
    \/ Expire("e1")

SpecSeatMap == Init /\ [][NextSeatMap]_vars

(* ------------------------------ claims --------------------------------- *)
ConfirmedIds == {b \in BookingIds : bookings[b].status = "CONFIRMED"}
BookedRows   == {r \in SeatRows : seatStatus[r] = "BOOKED"}

RECURSIVE SumSeats(_)
SumSeats(n) ==
    IF n = 0 THEN 0 ELSE Cardinality(bookings[n].seats) + SumSeats(n - 1)

\* C1: no double allocation.  As long as only createBooking calls have
\* committed (no booking is cancelled), every seat is in at most one
\* successful booking, and the seats of all successful bookings together
\* number no more than the seats whose status is BOOKED.
C1_NoDoubleAllocation ==
    (\A b \in BookingIds : bookings[b].status = "CONFIRMED") =>
        /\ \A r \in SeatRows :
             Cardinality({b \in BookingIds : r \in bookings[b].seats}) <= 1
        /\ SumSeats(Len(bookings)) <= Cardinality(BookedRows)

\* two bookings succeeded and a third, overlapping attempt lost a seat
C1_Witness ==
    /\ Len(bookings) = 2
    /\ \A b \in BookingIds : bookings[b].status = "CONFIRMED"
    /\ last.kind = "SeatUnavailable"
    /\ \E s \in Sessions : pc[s] = "committed"

\* C2: seat/booking consistency.  In every reachable state a seat is BOOKED
\* if and only if exactly one CONFIRMED booking holds a ticket for it, and
\* AVAILABLE if and only if no CONFIRMED booking holds a ticket for it.
C2_SeatBookingConsistency ==
    \A r \in SeatRows :
        LET holders == {b \in ConfirmedIds : r \in bookings[b].seats}
        IN  /\ seatStatus[r] = "BOOKED" <=> Cardinality(holders) = 1
            /\ seatStatus[r] = "AVAILABLE" <=> holders = {}

\* C3: contention on one seat.  When every request asks for the same single
\* seat A, which starts AVAILABLE, exactly one request succeeds: there is
\* never more than one booking, every answer is either the booking or the
\* seat-unavailable error listing A (no other error kind), and once all of
\* the requests have been answered exactly one booking, for seat A, exists.
C3_OneWinner ==
    /\ Len(bookings) <= 1
    /\ last.kind \in {"none", "Booking", "SeatUnavailable"}
    /\ last.kind = "SeatUnavailable" => last.listed = {"A"}
    /\ last.kind = "Booking" => last.bid = 1
    /\ (started >= 1 /\ \A s \in Sessions : pc[s] = "idle") =>
          /\ Len(bookings) = 1
          /\ bookings[1].status = "CONFIRMED"
          /\ bookings[1].seats = {<<"e1", "A">>}
          /\ Enqueued("send_booking_confirmation_email", 1) = 1

\* every contender has been answered, the last one with seat-unavailable
C3_Witness ==
    /\ started = MaxContenders
    /\ \A s \in Sessions : pc[s] = "idle"
    /\ last.kind = "SeatUnavailable"
    /\ last.listed = {"A"}
    /\ Len(bookings) = 1

\* the whole effect of a successful createBooking of handler s: every
\* requested seat goes from AVAILABLE to BOOKED, no other seat changes, and
\* one CONFIRMED booking is added with one ticket per requested seat
C4_Booked(s) ==
    LET requested == {r \in SeatRows : r[1] = req[s].event /\
                                       \E i \in 1..Len(req[s].ids) :
                                           r[2] = req[s].ids[i]}
    IN  /\ pc[s] = "locking"
        /\ pc'[s] = "committed"
        /\ Cardinality(requested) = Len(req[s].ids)
        /\ \A r \in requested : seatStatus[r] = "AVAILABLE"
        /\ seatStatus' = [r \in SeatRows |->
                             IF r \in requested THEN "BOOKED" ELSE seatStatus[r]]
        /\ Len(bookings') = Len(bookings) + 1
        /\ \A b \in BookingIds : bookings'[b] = bookings[b]
        /\ bookings'[Len(bookings')].status = "CONFIRMED"
        /\ bookings'[Len(bookings')].seats = requested
        /\ bookings'[Len(bookings')].user = req[s].user

\* C4: createBooking is all-or-nothing.  A createBooking call that ends in
\* an error (seat missing, seat unavailable, a failed statement, flush or
\* commit) leaves every seat status and the bookings as they were, and so
\* does every step it takes before its commit; a call that succeeds has, in
\* its one commit step, set all the requested seats BOOKED and added exactly
\* one CONFIRMED booking with one ticket per requested seat.
C4_AllOrNothing ==
    [][/\ \A s \in Sessions :
            (pc[s] = "locking" /\ pc'[s] = "committed") => C4_Booked(s)
       /\ (seatStatus' # seatStatus \/ bookings' # bookings) =>
            \E s \in Sessions :
                \/ C4_Booked(s)
                \/ pc[s] = "cancelling" /\ pc'[s] = "cancelled"]_vars

\* a request naming seat B failed while B was BOOKED, and after the booking
\* of B was cancelled a request for seats A and B succeeded
C4_Witness ==
    /\ Len(bookings) = 2
    /\ bookings[1].status = "CANCELLED"
    /\ bookings[1].seats = {<<"e1", "B">>}
    /\ bookings[2].status = "CONFIRMED"
    /\ bookings[2].seats = {<<"e1", "A">>, <<"e1", "B">>}
    /\ \A r \in SeatRows : seatStatus[r] = "BOOKED"
    /\ last.kind = "SeatUnavailable"
    /\ last.listed = {"B"}

\* C5: overlapping seat sets.  Of two concurrent createBooking calls for
\* seats that all exist and are AVAILABLE beforehand, a call that fails
\* fails with the seat-unavailable error and no other, and the BOOKED seats
\* are exactly the seats of the bookings made (the failed call books none).
C5_OverlapOutcome ==
    started <= 2 =>
        /\ last.kind \in {"none", "Booking", "SeatUnavailable"}
        /\ BookedRows = UNION {bookings[b].seats : b \in BookingIds}

\* C6: idempotent cancel.  A cancel by the owner that finds its booking
\* already CANCELLED takes no lock and writes nothing: it goes straight to
\* its return, leaves every seat and every booking as they were, and
\* answers with that same booking, which is CANCELLED; it does not raise.
C6_IdempotentCancel ==
    [][\A s \in Sessions :
         /\ (/\ pc[s] = "idle"
             /\ pc'[s] \in {"cancelling", "cancelled"}
             /\ bookings[req'[s].bid].status = "CANCELLED") =>
                /\ pc'[s] = "cancelled"
                /\ bookings[req'[s].bid].user = req'[s].user
                /\ tx'[s] = EmptyTx
                /\ UNCHANGED <<seatStatus, bookings>>
         /\ (pc[s] = "cancelled" /\ pc'[s] # "cancelled") =>
                /\ pc'[s] = "idle"
                /\ last' = Response("Cancelled", "none", req[s].bid, {})
                /\ bookings'[req[s].bid].status = "CANCELLED"
                /\ UNCHANGED <<seatStatus, bookings>>]_vars

\* the owner cancelled one booking twice, one call after the other, and
\* the seat was booked again in between: it is still BOOKED
C6_Witness ==
    /\ Len(bookings) = 2
    /\ last = Response("Cancelled", "none", 1, {})
    /\ Enqueued("send_booking_cancellation_email", 1) = 2
    /\ bookings[1].status = "CANCELLED"
    /\ bookings[2].status = "CONFIRMED"
    /\ bookings[2].seats \subseteq bookings[1].seats
    /\ \A r \in bookings[2].seats : seatStatus[r] = "BOOKED"

\* C7: atomic cancel.  The commit of a cancel of a CONFIRMED booking leaves
\* every seat of the booking's tickets AVAILABLE and the booking CANCELLED,
\* in that one step; a cancel whose flush or commit fails changes neither
\* the seats nor the booking.
C7_AtomicCancel ==
    [][\A s \in Sessions :
         (/\ pc[s] = "cancelling"
          /\ pc'[s] # "cancelling"
          /\ bookings[req[s].bid].status = "CONFIRMED") =>
            IF pc'[s] = "cancelled"
            THEN /\ \A r \in bookings[req[s].bid].seats :
                        seatStatus'[r] = "AVAILABLE"
                 /\ bookings'[req[s].bid].status = "CANCELLED"
            ELSE UNCHANGED <<seatStatus, bookings>>]_vars

\* C8: cancel of a missing or foreign booking.  A cancel whose booking id
\* does not exist, or whose booking belongs to another user, answers null
\* in both cases alike, does not raise, and changes nothing: no seat, no
\* booking, no lock, no cache invalidation, no task enqueued.
C8_CancelNotFound ==
    [][\A s \in Sessions, u \in Users, bid \in 1..(Len(bookings) + 1) :
         (/\ cancel_booking(s, u, bid)
          /\ ~(bid \in BookingIds /\ bookings[bid].user = u)) =>
            /\ last' = Response("Null", "none", 0, {})
            /\ pc'[s] = "idle"
            /\ UNCHANGED <<seatStatus, bookings, tx, cacheDeleted, outbox>>]_vars

\* a cancel was answered null while a booking of u1 stood CONFIRMED and
\* untouched: its seats BOOKED, one cache invalidation and one confirmation
\* task from its creation, nothing else
C8_Witness ==
    /\ last = Response("Null", "none", 0, {})
    /\ started = 3
    /\ Len(bookings) = 1
    /\ bookings[1].user = "u1"
    /\ bookings[1].status = "CONFIRMED"
    /\ \A r \in bookings[1].seats : seatStatus[r] = "BOOKED"
    /\ cacheDeleted["e1"] = 1
    /\ Cardinality(outbox) = 1
    /\ \A s \in Sessions : pc[s] = "idle"

\* C9: total consistency.  Every stored booking has total_amount equal to
\* final_price_per_ticket times its number of tickets, whatever the wall
\* clock read at each of the clock reads of the booking call.
C9_TotalConsistency ==
    \A b \in BookingIds :
        bookings[b].total_amount =
            bookings[b].final_price_per_ticket * Cardinality(bookings[b].seats)

\* the pricing snapshot of a booking
C10_Snapshot(b) ==
    <<b.base_price_per_ticket, b.final_price_per_ticket,
      b.price_multiplier, b.total_amount>>

\* C10: snapshot frame.  Once a booking is written its pricing snapshot
\* (base price, final price, multiplier, total) never changes: not by its
\* cancellation, not by other bookings or cancellations, not by the clock
\* moving into another pricing tier, not by an update of the event's base
\* price; and no booking disappears.
C10_SnapshotFrame ==
    [][/\ Len(bookings') >= Len(bookings)
       /\ \A b \in BookingIds :
            C10_Snapshot(bookings'[b]) = C10_Snapshot(bookings[b])]_vars

\* a booking made at 1.75x of base price 50.00 was cancelled, the clock
\* moved into the 2.0x tier, the base price was changed and another booking
\* was made at the new price: the first still carries its own snapshot
C10_Witness ==
    /\ Len(bookings) = 2
    /\ bookings[1].status = "CANCELLED"
    /\ C10_Snapshot(bookings[1]) = <<5000, 8750, 175, 8750>>
    /\ now = 1
    /\ events["e1"].base_price = 1010
    /\ bookings[2].base_price_per_ticket = 1010
    /\ bookings[2].price_multiplier = 200

\* the multiplier of the tier with the largest threshold <= days in the
\* table 28: 1.0, 21: 1.25, 14: 1.5, 7: 1.75, 0: 2.0
C11_TierTable == [d \in {28, 21, 14, 7, 0} |->
                    CASE d = 28 -> 100 [] d = 21 -> 125 [] d = 14 -> 150
                      [] d = 7 -> 175 [] d = 0 -> 200]

C11_Multiplier(days) ==
    LET below == {d \in DOMAIN C11_TierTable : d <= days}
        top == CHOOSE d \in below : \A x \in below : x <= d
    IN  C11_TierTable[top]

\* C11: tier pricing.  For an event that has not started (days left >= 0)
\* the price quoted is round(base_price x multiplier, 2) with the multiplier
\* of the tier with the largest threshold <= days left: 1.75 for 7..13 days
\* and 2.0 for 0..6 days, so base 50.00 at 10 days is quoted 87.50.
C11_TierPricing ==
    last.kind = "Pricing" =>
        LET e == events[last.event]
            days == DaysUntil(e.start_time, now)
        IN  days >= 0 =>
              /\ last.current_price =
                     Round2(e.base_price * C11_Multiplier(days))
              /\ days \in 7..13 => last.current_price = Round2(e.base_price * 175)
              /\ days \in 0..6 => last.current_price = 2 * e.base_price
              /\ (e.base_price = 5000 /\ days = 10) => last.current_price = 8750

\* base price 50.00 quoted 87.50 ten days before the start
C11_Witness ==
    /\ last.kind = "Pricing"
    /\ last.base_price = 5000
    /\ DaysUntil(events[last.event].start_time, now) = 10
    /\ last.current_price = 8750

\* distance of instant t from the start instant st
C12_Distance(st, t) == IF st >= t THEN st - t ELSE t - st

\* C12: pricing monotonicity.  For the base price and start time of an
\* event, the price quoted at an instant is greater than or equal to the
\* price at any instant that is farther from the start time.
C12_Monotone ==
    last.kind = "Pricing" =>
        LET e == events[last.event]
        IN  \A t2 \in Instants :
              C12_Distance(e.start_time, now) < C12_Distance(e.start_time, t2)
                => last.current_price >=
                     calculate_current_price(e.base_price, e.start_time, t2)

\* C13: a started event.  When the days left are negative (the event is in
\* progress or past) the price quoted is round(base_price x 2.0, 2), the
\* price of the nearest tier, the same as with 0 days left.
C13_StartedEventPrice ==
    last.kind = "Pricing" =>
        LET e == events[last.event]
        IN  DaysUntil(e.start_time, now) < 0 =>
              /\ last.current_price = Round2(e.base_price * 200)
              /\ last.current_price =
                    calculate_current_price(e.base_price, e.start_time,
                                            e.start_time)

\* C14: empty seat list.  A createBooking call whose seat_identifiers list
\* is empty is rejected: it never commits, and no booking without tickets
\* exists.
C14_EmptyListRejected ==
    /\ \A s \in Sessions :
         (req[s].op = "create" /\ req[s].ids = <<>>) => pc[s] # "committed"
    /\ \A b \in BookingIds : bookings[b].seats # {}

\* the requested identifiers of handler s that are no seat of its event
C15_Missing(s) ==
    {req[s].ids[i] : i \in 1..Len(req[s].ids)} \
        {r[2] : r \in {x \in SeatRows : x[1] = req[s].event}}

\* C15: seat not found.  A createBooking call that names an identifier
\* which is no seat of the event ends with the seat-not-found error listing
\* exactly the requested identifiers that do not exist, and changes no
\* seat (also when other requested seats exist and are AVAILABLE).
C15_SeatNotFound ==
    [][\A s \in Sessions :
         (/\ pc[s] = "locking"
          /\ C15_Missing(s) # {}
          /\ pc'[s] # "locking") =>
            /\ pc'[s] = "idle"
            /\ last' = Response("SeatNotFound", "none", 0, C15_Missing(s))
            /\ UNCHANGED <<seatStatus, bookings>>]_vars

\* the seat rows handler s asks for
C16_Requested(s) ==
    {r \in SeatRows : /\ r[1] = req[s].event
                      /\ \E i \in 1..Len(req[s].ids) : r[2] = req[s].ids[i]}

\* C16: seat unavailable.  A createBooking call whose requested seats all
\* exist and of which at least one is not AVAILABLE ends with the
\* seat-unavailable error (not seat-not-found) listing exactly the requested
\* seats whose status is not AVAILABLE, and changes no seat.
C16_SeatUnavailable ==
    [][\A s \in Sessions :
         (/\ pc[s] = "locking"
          /\ C15_Missing(s) = {}
          /\ \E r \in C16_Requested(s) : seatStatus[r] # "AVAILABLE"
          /\ pc'[s] # "locking") =>
            /\ pc'[s] = "idle"
            /\ last' = Response("SeatUnavailable", "none", 0,
                          {r[2] : r \in {x \in C16_Requested(s) :
                                            seatStatus[x] # "AVAILABLE"}})
            /\ UNCHANGED <<seatStatus, bookings>>]_vars

\* C17: acknowledged price.  When an acknowledged price is supplied and
\* differs from the current price by more than 0.01, createBooking fails
\* with the price-changed error carrying the current and the acknowledged
\* price, before any seat row is locked and with no change of state; when
\* none is supplied or it is within 0.01 of the current price, the attempt
\* is not rejected for price reasons and goes on to lock its seats.
C17_PriceChanged ==
    [][(pc[1] = "idle" /\ started' = started + 1) =>
         \* the user, list and last clock read of the call are those of the
         \* step's outcome (a refused call keeps none of them)
         LET u == IF pc'[1] = "locking" THEN req'[1].user ELSE "u1"
             ids == IF pc'[1] = "locking" THEN req'[1].ids ELSE <<"A">>
         IN  \A e \in Events, ackd \in AckDeltas, t2 \in now..now' :
               create_booking(1, u, e, ids, ackd, t2, now') =>
                 LET current ==
                         Round2(events[e].base_price *
                                C11_Multiplier(
                                    DaysUntil(events[e].start_time, now)))
                 IN  IF ackd \in {-2, 2}
                     THEN /\ last' = Response("PriceChanged", "none", 0,
                                         {<<"current", current>>,
                                          <<"acknowledged", current + ackd>>})
                          /\ pc'[1] = "idle"
                          /\ tx'[1] = EmptyTx
                          /\ UNCHANGED <<seatStatus, bookings, cacheDeleted,
                                         outbox, now>>
                     ELSE /\ pc'[1] = "locking"
                          /\ tx'[1].held = {}
                          /\ tx'[1].final = current
                          /\ UNCHANGED <<seatStatus, bookings, last>>]_vars

\* a request acknowledging a price two cents off was refused after a
\* request acknowledging a price one cent off had booked seat A at 87.50
C17_Witness ==
    /\ last = Response("PriceChanged", "none", 0,
                       {<<"current", 8750>>, <<"acknowledged", 8752>>})
    /\ Len(bookings) = 1
    /\ bookings[1].final_price_per_ticket = 8750
    /\ seatStatus[<<"e1", "B">>] = "AVAILABLE"
    /\ \A s \in Sessions : tx[s] = EmptyTx

\* C18: event not found.  A createBooking call for an event id that does
\* not exist ends with the event-not-found error at once: no price is
\* computed (the clock is not read), no seat row is locked, and the seats,
\* the bookings, the cache and the task queue are left as they were.
C18_EventNotFound ==
    [][\A s \in Sessions :
         (pc[s] = "idle" /\ started' = started + 1) =>
            \A u \in Users, ids \in SeatIdLists :
               create_booking(s, u, "e0", ids, NoAck, now, now) =>
                  /\ "e0" \notin DOMAIN events
                  /\ last' = Response("EventNotFound", "none", 0, {})
                  /\ pc'[s] = "idle"
                  /\ tx'[s] = EmptyTx
                  /\ \A t \in Sessions : tx'[t].held = tx[t].held
                  /\ UNCHANGED <<seatStatus, bookings, now, cacheDeleted,
                                 outbox>>]_vars

\* a request for the unknown event was refused while a booking of seat A
\* stood and another handler held the row lock of seat B
C18_Witness ==
    /\ last = Response("EventNotFound", "none", 0, {})
    /\ Len(bookings) = 1
    /\ bookings[1].seats = {<<"e1", "A">>}
    /\ seatStatus = (<<"e1", "A">> :> "BOOKED" @@ <<"e1", "B">> :> "AVAILABLE")
    /\ \E s \in Sessions : tx[s].held = {<<"e1", "B">>}

\* C19: post-commit side effects.  In createBooking the seat-map cache key
\* is invalidated and the confirmation task enqueued only by a handler
\* whose transaction has committed: its booking is in the table, it holds
\* no row lock, and the task names that booking; an attempt that ends in an
\* error touches neither the cache nor the queue.
C19_AfterCommit ==
    [][/\ \A s \in Sessions :
            (pc[s] = "locking" /\ pc'[s] = "idle") =>
                UNCHANGED <<cacheDeleted, outbox>>
       /\ (cacheDeleted' # cacheDeleted \/ outbox' # outbox) =>
            \E s \in Sessions :
                /\ pc[s] \in {"committed", "cancelled"}
                /\ pc'[s] = "idle"
                /\ tx[s].held = {}
                /\ req[s].bid \in BookingIds
                /\ cacheDeleted' =
                       [cacheDeleted EXCEPT ![bookings[req[s].bid].event] = @ + 1]
                /\ pc[s] = "committed" =>
                      /\ Enqueued("send_booking_confirmation_email",
                                  req[s].bid) = 0
                      /\ outbox' = outbox \cup
                            {<<"send_booking_confirmation_email", req[s].bid, 1>>}
       /\ \A m \in outbox' :
            m[1] = "send_booking_confirmation_email" => m[2] \in BookingIds]_vars

\* one booking was made, with its one cache invalidation and its one
\* confirmation task, and two later attempts ended in errors without either
C19_Witness ==
    /\ Len(bookings) = 1
    /\ started = 3
    /\ \A s \in Sessions : pc[s] = "idle"
    /\ last.kind = "ServerError"
    /\ cacheDeleted["e1"] = 1
    /\ outbox = {<<"send_booking_confirmation_email", 1, 1>>}

\* C20: absorbed failures.  Once a createBooking or cancel call has
\* committed, it returns its committed booking whether or not the cache
\* invalidation and the enqueues (confirmation, cancellation, waitlist
\* fan-out) succeed: the caller gets the booking and no error, the seats
\* and the bookings stay as committed; a failed invalidation or enqueue
\* only leaves the cache or the queue as it was.
C20_FailuresAbsorbed ==
    [][\A s \in Sessions :
         (pc[s] \in {"committed", "cancelled"} /\ pc'[s] # pc[s]) =>
            /\ pc'[s] = "idle"
            /\ last' = Response(IF pc[s] = "committed" THEN "Booking"
                                ELSE "Cancelled", "none", req[s].bid, {})
            /\ req[s].bid \in BookingIds
            /\ pc[s] = "cancelled" => bookings[req[s].bid].status = "CANCELLED"
            /\ UNCHANGED <<seatStatus, bookings>>
            /\ ~brokerUp => UNCHANGED outbox
            /\ ~redisUp => UNCHANGED cacheDeleted]_vars

\* with the broker and the cache both down a booking was made and
\* answered, then cancelled and answered: nothing was enqueued, no key
\* deleted, the booking is CANCELLED and its seat AVAILABLE
C20_Witness ==
    /\ ~brokerUp
    /\ ~redisUp
    /\ Len(bookings) = 1
    /\ bookings[1].status = "CANCELLED"
    /\ seatStatus[<<"e1", "A">>] = "AVAILABLE"
    /\ last = Response("Cancelled", "none", 1, {})
    /\ outbox = {}
    /\ cacheDeleted["e1"] = 0
    /\ \A s \in Sessions : pc[s] = "idle"

\* the users who have an entry on the waitlist of event e
C21_Waiting(e) ==
    {waitlist[i].user : i \in {j \in 1..Len(waitlist) : waitlist[j].event = e}}

\* C21: waitlist fan-out after a cancel.  The step that follows the commit
\* of a cancel counts the event's AVAILABLE seats and enqueues the
\* notify-all task for that event exactly when the count is above zero (and
\* the broker takes it); the task, when it runs, works on every user who is
\* on the event's waitlist at that moment, not the earliest alone, and has
\* attempted each of them when it returns.
C21_FanOut ==
    [][/\ \A s \in Sessions :
            (pc[s] = "cancelled" /\ pc'[s] = "idle") =>
                LET e == bookings[req[s].bid].event
                    available ==
                        Cardinality({r \in SeatRows :
                            r[1] = e /\ seatStatus[r] = "AVAILABLE"})
                    before == {m \in outbox : m[1] = "notify_all_waitlist_users"}
                    after == {m \in outbox' : m[1] = "notify_all_waitlist_users"}
                IN  IF available > 0 /\ brokerUp
                    THEN /\ before \subseteq after
                         /\ Cardinality(after \ before) = 1
                         /\ \A m \in after \ before : m[2] = e
                    ELSE after = before
       /\ (worker.pc = "idle" /\ worker'.pc = "running") =>
            /\ C21_Waiting(worker'.event) # {}
            /\ Range(worker'.entries) = C21_Waiting(worker'.event)
            /\ Len(worker'.entries) = Cardinality(C21_Waiting(worker'.event))
       /\ (worker.pc = "idle" /\ worker'.result # worker.result) =>
            /\ C21_Waiting(worker'.result.event) = {}
                  \/ worker'.result.event \notin Events
            /\ worker'.result.kind \in {"NoEntries", "EventNotFound"}
       /\ (worker.pc = "running" /\ worker'.pc = "idle") =>
            /\ {a[1] : a \in Range(worker.attempts)} = Range(worker.entries)
            /\ worker'.result.entries = worker.entries]_vars

\* a cancel released both seats and enqueued the task once; the task ran
\* over both users on the waitlist, u2 who joined first and u1 who joined
\* later, and one of the two deliveries failed
C21_Witness ==
    /\ Len(bookings) = 1
    /\ bookings[1].status = "CANCELLED"
    /\ get_available_seats_count("e1") = 2
    /\ outbox = {<<"send_booking_confirmation_email", 1, 1>>,
                 <<"send_booking_cancellation_email", 1, 1>>,
                 <<"notify_all_waitlist_users", "e1", 1>>}
    /\ worker.result.kind = "Summary"
    /\ worker.result.entries = <<"u2", "u1">>
    /\ worker.result.sent = 1
    /\ worker.result.failed = 1
    /\ \A s \in Sessions : pc[s] = "idle"

\* C22: fan-out only on a release.  The waitlist task is enqueued only by
\* a cancel that moved a booking from CONFIRMED to CANCELLED: with one call
\* at a time, an event has no more fan-outs enqueued than it has CANCELLED
\* bookings (a repeated cancel, a cancel answered null and createBooking
\* add none).
C22_FanOutOnlyOnRelease ==
    \A e \in Events :
        Enqueued("notify_all_waitlist_users", e) <=
            Cardinality({b \in BookingIds : /\ bookings[b].event = e
                                            /\ bookings[b].status = "CANCELLED"})

\* the number of attempts so far that ended in outcome o
C23_Count(attempts, o) ==
    Cardinality({i \in 1..Len(attempts) : attempts[i][2] = o})

\* C23: notifyAll delivers to every entry.  A run of the task attempts the
\* entries of the event one by one, in join order, each exactly once: a
\* delivery that is refused or raises is followed by the attempt for the
\* next entry, the run ends only after the last entry was attempted and
\* ends with its summary, never by raising, and the summary has sent = the
\* number of deliveries that succeeded and sent + failed = the number of
\* entries (five entries and no failure give sent = 5, failed = 0).
C23_EveryEntryOnce ==
    [][worker' # worker =>
        /\ (worker.pc = "idle" /\ worker'.pc = "running") =>
              /\ worker'.entries =
                    [i \in 1..Len(waitlist) |-> waitlist[i].user]
              /\ worker'.attempts = <<>>
        /\ worker.pc = "running" =>
              LET n == Len(worker.attempts)
              IN  IF n < Len(worker.entries)
                  THEN /\ worker'.pc = "running"
                       /\ Len(worker'.attempts) = n + 1
                       /\ \A i \in 1..n : worker'.attempts[i] = worker.attempts[i]
                       /\ worker'.attempts[n + 1][1] = worker.entries[n + 1]
                       /\ worker'.entries = worker.entries
                       /\ worker'.result = worker.result
                  ELSE /\ worker'.pc = "idle"
                       /\ \A i \in 1..n : worker.attempts[i][1] = worker.entries[i]
                       /\ worker'.result.kind = "Summary"
                       /\ worker'.result.sent = C23_Count(worker.attempts, "sent")
                       /\ worker'.result.sent + worker'.result.failed =
                              Len(worker.entries)
                       /\ Len(worker.entries) = Len(waitlist)
                       /\ (n = 5 /\ C23_Count(worker.attempts, "sent") = 5) =>
                              /\ worker'.result.sent = 5
                              /\ worker'.result.failed = 0
        /\ worker'.result.kind \in {"none", "NoEntries", "Summary"}
        /\ worker'.result.kind = "NoEntries" => waitlist = <<>>]_vars

\* the booking of both seats was cancelled and the task ran over the five
\* entries: two deliveries failed and the run went on to report sent = 3,
\* failed = 2
C23_Witness ==
    /\ Len(waitlist) = 5
    /\ bookings[1].status = "CANCELLED"
    /\ \A r \in SeatRows : seatStatus[r] = "AVAILABLE"
    /\ worker.pc = "idle"
    /\ worker.done = {<<"notify_all_waitlist_users", "e1", 1>>}
    /\ worker.result = [kind |-> "Summary", event |-> "e1",
                        entries |-> <<"u1", "u2", "u3", "u4", "u5">>,
                        sent |-> 3, failed |-> 2]

\* an entry of user u for event e is on the waitlist
C24_Entry(u, e) ==
    \E i \in 1..Len(waitlist) : waitlist[i].user = u /\ waitlist[i].event = e

\* C24: duplicate join.  A join call that meets an entry of its (user,
\* event) pair, when it looks the pair up or when it inserts its row, ends
\* with the already-on-waitlist error and leaves the waitlist unchanged; a
\* join call that meets none adds exactly one entry for the pair, at the
\* end of the waitlist.
C24_JoinOutcome ==
    [][\A s \in Sessions :
         /\ \A u \in Users :
              (/\ pc[s] = "idle"
               /\ started' = started + 1
               /\ join_waitlist(s, u, "e1")) =>
                 IF C24_Entry(u, "e1")
                 THEN /\ last' = Response("AlreadyOnWaitlist", "none", 0, {})
                      /\ pc'[s] = "idle"
                      /\ waitlist' = waitlist
                 ELSE /\ pc'[s] = "joining"
                      /\ waitlist' = waitlist
         /\ (pc[s] = "joining" /\ pc'[s] # "joining") =>
              IF C24_Entry(req[s].user, req[s].event)
              THEN /\ last' = Response("AlreadyOnWaitlist", "none", 0, {})
                   /\ waitlist' = waitlist
              ELSE /\ last'.kind = "WaitlistEntry"
                   /\ waitlist' = Append(waitlist, [user |-> req[s].user,
                                                    event |-> req[s].event])]_vars

\* C25: one entry per pair.  In every reachable state, also after
\* concurrent join calls by one user for one event, the waitlist holds at
\* most one entry for each (user, event) pair.
C25_UniqueEntry ==
    \A i \in 1..Len(waitlist), j \in 1..Len(waitlist) :
        (waitlist[i].user = waitlist[j].user /\
         waitlist[i].event = waitlist[j].event) => i = j

\* two join calls of u1 for e1 ran concurrently, both found no entry, and
\* the insert of the second was refused: one entry of u1 stands, after the
\* entry of u2
C25_Witness ==
    /\ waitlist = <<[user |-> "u2", event |-> "e1"],
                    [user |-> "u1", event |-> "e1"]>>
    /\ last = Response("ServerError", "integrity", 0, {})
    /\ started = 3
    /\ \A s \in Sessions : pc[s] = "idle"

\* C26: persisted seat states.  In every state reached through event
\* creation, createBooking and cancel (failed statements included) every
\* seat row has status AVAILABLE or BOOKED: no operation writes LOCKED.
C26_NoLockedSeat ==
    \A r \in SeatRows : seatStatus[r] \in {"AVAILABLE", "BOOKED"}

\* event e2 was created with two seats; its seat A is BOOKED by a standing
\* booking, and seat A of e1 is AVAILABLE again after its booking was
\* cancelled
C26_Witness ==
    /\ DOMAIN seatStatus = {<<"e1", "A">>, <<"e1", "B">>,
                            <<"e2", "A">>, <<"e2", "B">>}
    /\ seatStatus[<<"e2", "A">>] = "BOOKED"
    /\ seatStatus[<<"e2", "B">>] = "AVAILABLE"
    /\ seatStatus[<<"e1", "A">>] = "AVAILABLE"
    /\ \E b \in BookingIds : /\ bookings[b].status = "CANCELLED"
                             /\ <<"e1", "A">> \in bookings[b].seats
    /\ \E b \in BookingIds : /\ bookings[b].status = "CONFIRMED"
                             /\ bookings[b].seats = {<<"e2", "A">>}
    /\ \A s \in Sessions : pc[s] = "idle"

\* C27: booking state machine.  A booking is written CONFIRMED and its
\* status only ever moves from CONFIRMED to CANCELLED: a CANCELLED booking
\* stays CANCELLED in every later step, also under concurrent and repeated
\* cancels and failed statements, and no step removes a booking or any of
\* its tickets (or changes its user or event).
C27_StatusMachine ==
    [][/\ Len(bookings') >= Len(bookings)
       /\ \A b \in 1..Len(bookings') :
            IF b \in BookingIds
            THEN /\ bookings'[b].seats = bookings[b].seats
                 /\ bookings'[b].user = bookings[b].user
                 /\ bookings'[b].event = bookings[b].event
                 /\ bookings'[b].status \in {"CONFIRMED", "CANCELLED"}
                 /\ bookings[b].status = "CANCELLED" =>
                        bookings'[b].status = "CANCELLED"
            ELSE bookings'[b].status = "CONFIRMED"]_vars

\* booking 1 was cancelled, its seats were booked again by booking 2, and a
\* second cancel of booking 1 was answered: booking 1 is still CANCELLED
\* and still holds its tickets, booking 2 stands
C27_Witness ==
    /\ Len(bookings) = 2
    /\ bookings[1].status = "CANCELLED"
    /\ bookings[1].seats = {<<"e1", "A">>, <<"e1", "B">>}
    /\ bookings[2].status = "CONFIRMED"
    /\ bookings[2].seats = bookings[1].seats
    /\ BookedRows = bookings[2].seats
    /\ last = Response("Cancelled", "none", 1, {})
    /\ Enqueued("send_booking_cancellation_email", 1) = 2
    /\ \A s \in Sessions : pc[s] = "idle"

\* C28: lock order.  Concurrent createBooking calls take their seat row
\* locks in one global order, so that in no reachable state two attempts
\* each hold a row lock the other is waiting for.
C28_NoLockCycle ==
    \A s \in Sessions, t \in Sessions :
        ~(/\ s # t
          /\ pc[s] = "locking"
          /\ pc[t] = "locking"
          /\ tx[s].target \in tx[t].held
          /\ tx[t].target \in tx[s].held)

C30_EntriesSurvive ==
    [][/\ worker' # worker => waitlist' = waitlist
       /\ waitlist' # waitlist =>
             \E u \in Users, e \in Events :
                LET NotPair(w) == w # [user |-> u, event |-> e]
                IN  \/ /\ ~OnWaitlist(u, e)
                       /\ waitlist' = Append(waitlist,
                                             [user |-> u, event |-> e])
                       /\ last' = Response("WaitlistEntry", "none", 0,
                                           {<<u, e>>})
                    \/ /\ OnWaitlist(u, e)
                       /\ waitlist' = SelectSeq(waitlist, NotPair)
                       /\ last' = Response("Removed", "none", 0, {<<u, e>>})
       /\ (worker.pc = "idle" /\ worker'.pc = "running") =>
             /\ worker'.entries = WaitlistOf(worker'.event)
             /\ \A u \in Users :
                   OnWaitlist(u, worker'.event) =>
                       \E i \in 1..Len(worker'.entries) :
                          worker'.entries[i] = u]_vars

\* u2 joined, u1 booked and cancelled twice; the second task has notified
\* u2 as the first did, and u2's entry is still the waitlist
C30_Witness ==
    /\ waitlist = <<[user |-> "u2", event |-> "e1"]>>
    /\ Len(bookings) = 2
    /\ \A b \in BookingIds : bookings[b].status = "CANCELLED"
    /\ Cardinality({m \in worker.done :
                       /\ m[1] = "notify_all_waitlist_users"
                       /\ m[2] = "e1"}) = 2
    /\ worker.pc = "idle"
    /\ worker.result = [kind |-> "Summary", event |-> "e1",
                        entries |-> <<"u2">>, sent |-> 1, failed |-> 0]
    /\ \A s \in Sessions : pc[s] = "idle"

\* C31: idempotent release.  A cancel that reads its booking as CONFIRMED
\* goes on to the write without raising whatever the status of the seats,
\* and writes only the seats it read as BOOKED; its commit moves those to
\* AVAILABLE and changes no other seat, so a seat changed by the commit was
\* BOOKED and a seat that was AVAILABLE stays AVAILABLE.
C31_IdempotentRelease ==
    [][\A s \in Sessions :
         /\ \A bid \in BookingIds :
               (/\ cancel_booking(s, bookings[bid].user, bid)
                /\ bookings[bid].status = "CONFIRMED") =>
                   /\ pc'[s] = "cancelling"
                   /\ last' = last
                   /\ tx'[s].want = {r \in bookings[bid].seats :
                                        seatStatus[r] = "BOOKED"}
         /\ cancel_booking_commit(s) =>
               /\ tx[s].want \subseteq bookings[req[s].bid].seats
               /\ \A r \in SeatRows :
                     /\ seatStatus'[r] # seatStatus[r] =>
                           /\ r \in tx[s].want
                           /\ seatStatus[r] = "BOOKED"
                           /\ seatStatus'[r] = "AVAILABLE"
                     /\ seatStatus[r] = "AVAILABLE" =>
                           seatStatus'[r] = "AVAILABLE"
               /\ bookings'[req[s].bid].status = "CANCELLED"]_vars

\* a cancel has read its booking as CONFIRMED with seat A, a seat the late
\* commit of an earlier cancel had already made AVAILABLE: it has nothing to
\* release and is about to commit the cancellation
C31_Witness ==
    \E s \in Sessions :
       /\ pc[s] = "cancelling"
       /\ req[s].bid = 2
       /\ bookings[2].status = "CONFIRMED"
       /\ bookings[2].seats = {<<"e1", "A">>}
       /\ seatStatus[<<"e1", "A">>] = "AVAILABLE"
       /\ tx[s].want = {}
       /\ tx[s].target = NoRow

\* C32: past events.  A createBooking call for an event whose start_time is
\* before the clock's instant when the call arrives is rejected at once: the
\* attempt goes no further, no booking is created and no seat changes.
C32_PastEventRejected ==
    [][\A s \in Sessions :
         (/\ pc[s] = "idle"
          /\ started' = started + 1
          /\ pc'[s] = "locking"
          /\ req'[s].op = "create") =>
             events[req'[s].event].start_time >= now]_vars

\* C36: self-consistent snapshot.  Every booking stores
\* final_price_per_ticket = round(base_price_per_ticket x price_multiplier,
\* 2), whatever the clock showed at each of the attempt's clock reads, also
\* for an event that has started and for an attempt during which a pricing
\* tier boundary passed.
C36_SnapshotConsistent ==
    \A b \in BookingIds :
        bookings[b].final_price_per_ticket =
            Round2(bookings[b].base_price_per_ticket *
                   bookings[b].price_multiplier)

C34_NoDoubleRelease ==
    [][\A s \in Sessions :
         cancel_booking_commit(s) =>
            \A r \in SeatRows :
               (seatStatus[r] = "BOOKED" /\ seatStatus'[r] = "AVAILABLE") =>
                  ~\E b \in ConfirmedIds :
                      /\ b # req[s].bid
                      /\ r \in bookings[b].seats
                      /\ bookings[b].user # bookings[req[s].bid].user]_vars

\* C35: seat-not-found only for a missing seat.  createBooking ends with
\* the seat-not-found error only when one of the requested identifiers is no
\* seat of the event, and a request whose identifiers all are AVAILABLE
\* seats of the event books them, also when the list names an identifier
\* more than once.
C35_NotFoundOnlyIfMissing ==
    [][\A s \in Sessions :
         create_booking_with_seats(s) =>
            LET rows == {<<req[s].event, req[s].ids[i]>> :
                            i \in 1..Len(req[s].ids)}
            IN  /\ (pc'[s] = "idle" /\ last'.kind = "SeatNotFound") =>
                      \E r \in rows : r \notin SeatRows
                /\ (\A r \in rows : /\ r \in SeatRows
                                     /\ seatStatus[r] = "AVAILABLE") =>
                      /\ pc'[s] = "committed"
                      /\ bookings'[Len(bookings')].seats = rows]_vars

\* C37: one cancellation notification.  However often cancel is called on
\* a booking, at most one send_booking_cancellation_email task is enqueued
\* for it: a cancel that finds the booking CANCELLED enqueues none.
C37_OneCancellationNotice ==
    \A b \in BookingIds :
        Enqueued("send_booking_cancellation_email", b) <= 1

\* C38: concurrent joins of one pair.  Of two join calls for one (user,
\* event) pair that both found no entry, the one that commits first adds
\* the entry and succeeds, and the one that commits second adds nothing and
\* ends with the already-on-waitlist error, never with a server error.
C38_ConcurrentJoin ==
    [][\A s \in Sessions :
         join_waitlist_commit(s) =>
            LET pair == [user |-> req[s].user, event |-> req[s].event]
            IN  IF OnWaitlist(pair.user, pair.event)
                THEN /\ last'.kind = "AlreadyOnWaitlist"
                     /\ waitlist' = waitlist
                ELSE /\ last'.kind = "WaitlistEntry"
                     /\ Len(waitlist') = Len(waitlist) + 1
                     /\ waitlist'[Len(waitlist')] = pair]_vars

\* C39: cache freshness.  Whenever no createBooking or cancel call of an
\* event is between its commit and its cache invalidation and no
\* transaction on the event's seats is open, the event's seat-map key is
\* absent or holds the committed status of every seat: a seat-map read that
\* fills the cache concurrently never leaves an older status behind.
C39_CacheFresh ==
    \A e \in Events :
        (\A s \in Sessions : pc[s] = "idle") =>
            \/ e \notin DOMAIN seatCache
            \/ seatCache[e] = [r \in {x \in SeatRows : x[1] = e} |->
                                 seatStatus[r]]

\* C40: frame of booking and cancel.  The commit of a createBooking call
\* for event E changes the status only of seats of E whose identifiers the
\* request names, and adds one booking; the commit of a cancel changes the
\* status only of seats of the cancelled booking's tickets, and only that
\* booking; every other step of a handler changes no seat and no booking.
\* Seats of another event with the same identifiers, the other seats of E
\* and all other bookings stay as they are.
C40_Frame ==
    [][\A s \in Sessions :
         /\ create_booking_with_seats(s) =>
               /\ \A r \in SeatRows :
                     seatStatus'[r] # seatStatus[r] =>
                        /\ r[1] = req[s].event
                        /\ r[2] \in Range(req[s].ids)
               /\ \A b \in BookingIds : bookings'[b] = bookings[b]
         /\ cancel_booking_commit(s) =>
               /\ \A r \in SeatRows :
                     seatStatus'[r] # seatStatus[r] =>
                        r \in bookings[req[s].bid].seats
               /\ Len(bookings') = Len(bookings)
               /\ \A b \in BookingIds \ {req[s].bid} :
                     bookings'[b] = bookings[b]
         /\ (\/ LockRow(s)
             \/ create_booking_after_commit(s)
             \/ cancel_booking_after_commit(s)
             \/ DbFault(s)
             \/ Deadlock(s)
             \/ (pc[s] = "idle" /\ pc'[s] # "idle")) =>
               UNCHANGED <<seatStatus, bookings>>]_vars

\* events e1 and e2 both have a seat A; u1 booked seat A of e1, then seat A
\* of e2 was booked and cancelled: seat A of e2 is AVAILABLE again while
\* seat A of e1 is still BOOKED under its CONFIRMED booking, and seat B of
\* e1 was never touched
C40_Witness ==
    /\ "e2" \in Events
    /\ Len(bookings) = 2
    /\ bookings[1].event = "e1"
    /\ bookings[1].seats = {<<"e1", "A">>}
    /\ bookings[1].status = "CONFIRMED"
    /\ bookings[2].event = "e2"
    /\ bookings[2].seats = {<<"e2", "A">>}
    /\ bookings[2].status = "CANCELLED"
    /\ seatStatus[<<"e1", "A">>] = "BOOKED"
    /\ seatStatus[<<"e1", "B">>] = "AVAILABLE"
    /\ seatStatus[<<"e2", "A">>] = "AVAILABLE"
    /\ \A s \in Sessions : pc[s] = "idle"

====
